---- MODULE Spec2Model ----
(***************************************************************************)
(* Blend optimizer engine (backend/optimizer_core): candidate filter,      *)
(* combination generator, allocation solver, evaluator and the optimize    *)
(* entry point.                                                            *)
(*                                                                         *)
(* Numbers.  The code computes in floating point.  Here                   *)
(*   - masses are integers in tenths of a kilogram (Kg(n) is n kg);        *)
(*   - percentages and fill power are integers;                            *)
(*   - a weighted average is the exact fraction [n, d];                    *)
(*   - every threshold test is done by cross-multiplication, so it is      *)
(*     exact; a product such as remaining * 1.2 is rounded down to a       *)
(*     tenth of a kilogram;                                                *)
(*   - scores are integers in hundredths of a point, rounded down.         *)
(***************************************************************************)
EXTENDS Integers, Sequences, FiniteSets, TLC

\* Python None for an Optional[float] field (all such fields are >= 0)
None == -1
\* Python None for an Optional[str] field
NoneStr == "None"

\* n kilograms, in tenths of a kilogram
Kg(n) == 10 * n

---------------------------------------------------------------------------
\* config.py

MinLotUsageKg == 10
MaxLotUsagePct == 95
MaxLotsPerBlend == 10
IdealLotsPerBlend == 5
InitialDcRange == 15
MaxCombinations == 25000
DcToleranceDefault == 3
FpToleranceDefault == 5
DuckToleranceDefault == 5
DcTargetMatch == 1000
FpTargetMatch == 800
EstimatedDataPenalty == -100
SpeciesOptimizationBonus == 50
SpeciesMismatchPenalty == -150
DcOverqualificationThreshold == 5

MaterialStateCodes == {"P", "M", "S", "O"}
EquivalentTreatments == {"GWR", "NWR"}

---------------------------------------------------------------------------
\* generic helpers

Min(a, b) == IF a <= b THEN a ELSE b
Max(a, b) == IF a >= b THEN a ELSE b
Abs(a) == IF a >= 0 THEN a ELSE -a

Take(s, n) == SubSeq(s, 1, Min(n, Len(s)))

RECURSIVE SeqSum(_)
SeqSum(s) == IF s = <<>> THEN 0 ELSE Head(s) + SeqSum(Tail(s))

RECURSIVE Flatten(_)
Flatten(ss) == IF ss = <<>> THEN <<>> ELSE Head(ss) \o Flatten(Tail(ss))

\* lexicographic order on two integer tuples of the same length (Python tuple <)
RECURSIVE LexLess(_, _)
LexLess(a, b) ==
    IF a = <<>> THEN FALSE
    ELSE IF Head(a) < Head(b) THEN TRUE
    ELSE IF Head(a) > Head(b) THEN FALSE
    ELSE LexLess(Tail(a), Tail(b))

\* list.sort / sorted with a key: ascending and stable
Rank(keys, i) ==
    Cardinality({j \in DOMAIN keys :
        LexLess(keys[j], keys[i]) \/ (keys[j] = keys[i] /\ j < i)})

SortByKeys(items, keys) ==
    [r \in 1..Len(items) |->
        items[CHOOSE i \in 1..Len(items) : Rank(keys, i) = r - 1]]

\* the permutations of 1..n, as sequences
Perms(n) ==
    {p \in [1..n -> 1..n] : \A i, j \in 1..n : p[i] = p[j] => i = j}

---------------------------------------------------------------------------
\* compatibility.py, inventory.py: lots

SpeciesCodes == {"O", "A", "OA", "C"}

ColorCodes == {"PW", "BPW", "NPW", "BNPW", "B", "G", "R"}

\* ProductCode.is_valid
ProductIsValid(product) ==
    /\ \A f \in {product.state, product.species, product.color} :
           f # NoneStr /\ f # ""
    /\ product.state \in MaterialStateCodes
    /\ product.species \in SpeciesCodes
    /\ product.color \in ColorCodes

\* ProductCode.is_water_repellent
ProductIsWaterRepellent(product) ==
    IF product.certification = NoneStr \/ product.certification = ""
    THEN FALSE
    ELSE product.certification \in EquivalentTreatments

\* a list of characters as one string
RECURSIVE Join(_)
Join(chars) == IF chars = <<>> THEN "" ELSE Head(chars) \o Join(Tail(chars))

LowerCase == << "a", "b", "c", "d", "e", "f", "g", "h", "i", "j", "k", "l", "m",
               "n", "o", "p", "q", "r", "s", "t", "u", "v", "w", "x", "y", "z" >>
UpperCase == << "A", "B", "C", "D", "E", "F", "G", "H", "I", "J", "K", "L", "M",
               "N", "O", "P", "Q", "R", "S", "T", "U", "V", "W", "X", "Y", "Z" >>

\* str.upper() on a list of characters
Upper(chars) ==
    [k \in 1..Len(chars) |->
        IF \E j \in 1..Len(LowerCase) : LowerCase[j] = chars[k]
        THEN UpperCase[CHOOSE j \in 1..Len(LowerCase) : LowerCase[j] = chars[k]]
        ELSE chars[k]]

\* str.strip() on a list of characters
RECURSIVE Strip(_)
Strip(chars) ==
    IF chars = <<>> THEN <<>>
    ELSE IF Head(chars) = " " THEN Strip(Tail(chars))
    ELSE IF chars[Len(chars)] = " " THEN Strip(SubSeq(chars, 1, Len(chars) - 1))
    ELSE chars

\* LotData.is_water_repellent; quality_nominal is a list of characters
IsWaterRepellent(lot) ==
    \/ ProductIsWaterRepellent(lot.product)
    \/ /\ lot.quality_nominal # <<>>
       /\ Join(Strip(Upper(lot.quality_nominal))) \in EquivalentTreatments

\* LotData.calculate_quality_score, doubled (the weights 1.5 become integers)
QualityScore2(lot) ==
      (IF lot.dc_real # None THEN (100 - lot.dc_real) * 4 ELSE 0)
    + (IF lot.duck_real # None THEN lot.duck_real * 3 ELSE 0)
    + (IF lot.other_elements_real # None THEN lot.other_elements_real * 6 ELSE 0)
    + (IF lot.feather_real # None THEN lot.feather_real * 2 ELSE 0)
    + (IF lot.total_fibres_real # None THEN lot.total_fibres_real * 4 ELSE 0)
    + (IF lot.broken_real # None THEN lot.broken_real * 3 ELSE 0)
    + (IF lot.landfowl_real # None THEN lot.landfowl_real * 4 ELSE 0)
    - (IF lot.is_estimated THEN 100 ELSE 0)

FilterLotsKeepEstimated(lots, species, color, min_dc, max_dc, min_qty, exclude_water_repellent, exclude_raw_materials, allow_estimated) ==
    LET Keep(l) ==
            /\ exclude_raw_materials => l.product.group # "G"
            /\ (species # NoneStr /\ species # "") => l.product.species = species
            /\ (color # NoneStr /\ color # "") => l.product.color = color
            /\ min_dc # None => (l.dc_real # None /\ l.dc_real >= min_dc)
            /\ max_dc # None => (l.dc_real # None /\ l.dc_real <= max_dc)
            /\ min_qty # None => l.qty_available >= min_qty
            /\ exclude_water_repellent => ~IsWaterRepellent(l)
    IN  SelectSeq(lots, Keep)

\* InventoryManager.filter_lots
FilterLots(lots, species, color, min_dc, max_dc, min_qty, exclude_water_repellent, exclude_raw_materials, allow_estimated) ==
    LET Keep(l) ==
            /\ exclude_raw_materials => l.product.group # "G"
            /\ (species # NoneStr /\ species # "") => l.product.species = species
            /\ (color # NoneStr /\ color # "") => l.product.color = color
            /\ min_dc # None => (l.dc_real # None /\ l.dc_real >= min_dc)
            /\ max_dc # None => (l.dc_real # None /\ l.dc_real <= max_dc)
            /\ min_qty # None => l.qty_available >= min_qty
            /\ exclude_water_repellent => ~IsWaterRepellent(l)
            /\ ~allow_estimated => ~l.is_estimated
    IN  SelectSeq(lots, Keep)

CheckMaterialStateCompatibilityNoLimit(product, dc_target) ==
    IF product.state = NoneStr \/ product.state = ""
       \/ product.state \notin MaterialStateCodes
    THEN FALSE
    ELSE product.state # "O"

\* CompatibilityManager.check_material_state_compatibility (the boolean)
CheckMaterialStateCompatibility(product, dc_target) ==
    IF product.state = NoneStr \/ product.state = ""
       \/ product.state \notin MaterialStateCodes
    THEN FALSE
    ELSE IF product.state = "P" THEN TRUE
    ELSE IF product.state = "M" THEN ~(dc_target # None /\ dc_target > 50)
    ELSE IF product.state = "S" THEN ~(dc_target # None /\ dc_target > 30)
    ELSE IF product.state = "O" THEN FALSE
    ELSE TRUE

---------------------------------------------------------------------------
\* optimizer.py: candidate filter and ranker

\* BlendOptimizer._calculate_duck_penalty, times 4 (0.5 * target is exact)
DuckPenalty4(duck_real, duck_target) ==
    IF duck_target = None \/ duck_real = None THEN 0
    ELSE IF 2 * duck_real < duck_target
         THEN (duck_target - 2 * duck_real) * (duck_target - 2 * duck_real)
    ELSE IF duck_real <= 2 * duck_target THEN 0
    ELSE 4 * (duck_real - 2 * duck_target) * (duck_real - 2 * duck_target)

IsSpeciesCompatibleFlexibleNoSpeciesA(lot, species_target, duck_target) ==
    LET lot_species == lot.product.species
        duck_real == IF lot.duck_real # None THEN lot.duck_real ELSE 0
    IN  IF species_target = "O"
        THEN IF duck_target # None /\ duck_target > 0
             THEN duck_real <= duck_target + 30
             ELSE ~(duck_real > 95)
        ELSE IF species_target \in {"OA", "A"} THEN TRUE
        ELSE lot_species = species_target

\* BlendOptimizer._is_species_compatible_flexible
IsSpeciesCompatibleFlexible(lot, species_target, duck_target) ==
    LET lot_species == lot.product.species
        duck_real == IF lot.duck_real # None THEN lot.duck_real ELSE 0
    IN  IF species_target = "A"
        THEN IF lot_species = "O" /\ duck_real < 15 THEN FALSE
             ELSE IF duck_real >= 80 THEN TRUE
             ELSE IF duck_real >= 50 THEN TRUE
             ELSE IF lot_species = "A" THEN TRUE
             ELSE FALSE
        ELSE IF species_target = "O"
        THEN IF duck_target # None /\ duck_target > 0
             THEN duck_real <= duck_target + 30
             ELSE ~(duck_real > 95)
        ELSE IF species_target = "OA" THEN TRUE
        ELSE lot_species = species_target

\* get_base_color inside _is_color_compatible_flexible: the part before a
\* '.', with "PW" and then "NPW" removed, first character; "" stands for None.
\* Colors outside the table are single letters without suffix.
BaseColor(color) ==
    CASE color = "PW" -> ""
      [] color = "BPW" -> "B"
      [] color = "NPW" -> "N"
      [] color = "BNPW" -> "B"
      [] OTHER -> color

\* BlendOptimizer._is_color_compatible_flexible
IsColorCompatibleFlexible(lot, color_target) ==
    LET lot_color == lot.product.color
    IN  IF lot_color = NoneStr \/ lot_color = "" THEN FALSE
        ELSE IF lot_color = color_target THEN TRUE
        ELSE /\ BaseColor(color_target) # ""
             /\ BaseColor(lot_color) # ""
             /\ BaseColor(color_target) = BaseColor(lot_color)

\* The sort key of _filter_candidates.  x ** 1.5 is replaced by x ** 3, its
\* square, which orders the same way (999 becomes 999 ** 2); the duck penalty
\* is times 4 and the quality score times 2.
CandidateKey(l, requirements) ==
    LET cost == IF l.cost_per_kg # None THEN l.cost_per_kg ELSE 999
    IN  IF requirements.dc_target # None
        THEN << DuckPenalty4(l.duck_real, requirements.duck_target),
                IF l.dc_real # None
                THEN LET x == Max(0, l.dc_real - requirements.dc_target)
                     IN  x * x * x
                ELSE 999 * 999,
                -QualityScore2(l),
                cost >>
        ELSE << -QualityScore2(l), cost >>

\* BlendOptimizer._filter_candidates
FilterCandidates(lots, requirements, allow_estimated) ==
    LET species_target == requirements.species
        color_target == requirements.color
        dc_target == requirements.dc_target
        duck_target == requirements.duck_target
        min_qty == Kg(MinLotUsageKg)
        min_dc == IF dc_target # None THEN Max(0, dc_target - InitialDcRange)
                  ELSE None
        max_dc == IF dc_target # None THEN Min(100, dc_target + InitialDcRange)
                  ELSE None
        exclude_wr == ~requirements.water_repellent
        all_candidates ==
            FilterLots(lots, NoneStr, NoneStr, min_dc, max_dc, min_qty,
                       exclude_wr, TRUE, allow_estimated)
        Keep(lot) ==
            /\ CheckMaterialStateCompatibility(lot.product, dc_target)
            /\ (species_target # NoneStr /\ species_target # "") =>
                   IsSpeciesCompatibleFlexible(lot, species_target, duck_target)
            /\ (color_target # NoneStr /\ color_target # "") =>
                   IsColorCompatibleFlexible(lot, color_target)
        filtered == SelectSeq(all_candidates, Keep)
    IN  SortByKeys(filtered,
                   [i \in 1..Len(filtered) |-> CandidateKey(filtered[i], requirements)])

---------------------------------------------------------------------------
\* optimizer.py: allocation solver.  An allocation is a sequence of
\* [lot, kg]; the empty sequence stands for None as well (the callers test
\* "if allocation:", which treats both alike).

MaxUsable(lot) == (lot.qty_available * MaxLotUsagePct) \div 100

TotalKg(allocation) ==
    SeqSum([i \in 1..Len(allocation) |-> allocation[i].kg])

\* sum of dc_real * kg over an allocation whose lots all have dc_real
DcKgSum(allocation) ==
    SeqSum([i \in 1..Len(allocation) |-> allocation[i].lot.dc_real * allocation[i].kg])

AllocationNoFloor(allocation, target_kg) == allocation

\* the closing test shared by the allocators: None below 90% of the target
AtLeast90(allocation, target_kg) ==
    IF TotalKg(allocation) * 10 < target_kg * 9 THEN <<>> ELSE allocation

RECURSIVE SimpleLoop(_, _, _, _, _)
SimpleLoop(lots, i, remaining, allocation, factor10) ==
    IF i > Len(lots) \/ remaining <= 0 THEN allocation
    ELSE LET kg == Min((remaining * factor10) \div 10, MaxUsable(lots[i]))
         IN  IF kg >= Kg(MinLotUsageKg)
             THEN SimpleLoop(lots, i + 1, remaining - kg,
                             Append(allocation, [lot |-> lots[i], kg |-> kg]), factor10)
             ELSE SimpleLoop(lots, i + 1, remaining, allocation, factor10)

SimpleAllocationOvershoot(lots, target_kg) ==
    AtLeast90(SimpleLoop(lots, 1, target_kg, <<>>, 13), target_kg)

\* BlendOptimizer._simple_allocation
SimpleAllocation(lots, target_kg) ==
    AtLeast90(SimpleLoop(lots, 1, target_kg, <<>>, 12), target_kg)

\* the "clamp at 95% and keep if at least 10 kg" loop shared by the uniform,
\* balanced and weighted allocators; want[i] is the kg wanted for lots[i]
ClampAndFloor(lots, want) ==
    LET n == Len(lots)
        kg == [i \in 1..n |-> Min(want[i], MaxUsable(lots[i]))]
        kept == SelectSeq([i \in 1..n |-> i], LAMBDA i : kg[i] >= Kg(MinLotUsageKg))
    IN  [j \in 1..Len(kept) |-> [lot |-> lots[kept[j]], kg |-> kg[kept[j]]]]

\* BlendOptimizer._uniform_allocation
UniformAllocation(lots, target_kg) ==
    LET n == Len(lots)
        kg_per_lot == target_kg \div n
    IN  AtLeast90(ClampAndFloor(lots, [i \in 1..n |-> kg_per_lot]), target_kg)

\* proportions are integers in 1/10000
PropOne == 100 * 100

\* one pass of the balancing loop of _balanced_allocation
RECURSIVE BalanceLoop(_, _, _, _)
BalanceLoop(lots, dc_target, proportions, iteration) ==
    LET n == Len(lots)
        dc_result == SeqSum([i \in 1..n |-> lots[i].dc_real * proportions[i]])
    IN  IF iteration >= 50 THEN proportions
        ELSE IF Abs(dc_result - dc_target * PropOne) * 10 < PropOne THEN proportions
        ELSE LET up(i) == (proportions[i] * 11) \div 10
                 down(i) == (proportions[i] * 9) \div 10
                 adjusted ==
                    [i \in 1..n |->
                        IF dc_result > dc_target * PropOne
                        THEN IF lots[i].dc_real < dc_target THEN up(i)
                             ELSE IF lots[i].dc_real > dc_target THEN down(i)
                             ELSE proportions[i]
                        ELSE IF lots[i].dc_real > dc_target THEN up(i)
                             ELSE IF lots[i].dc_real < dc_target THEN down(i)
                             ELSE proportions[i]]
                 total_prop == SeqSum(adjusted)
                 normalized ==
                    IF total_prop > 0
                    THEN [i \in 1..n |-> (adjusted[i] * PropOne) \div total_prop]
                    ELSE adjusted
             IN  BalanceLoop(lots, dc_target, normalized, iteration + 1)

\* BlendOptimizer._balanced_allocation
BalancedAllocation(lots, target_kg, dc_target) ==
    LET n == Len(lots)
    IN  IF n = 0 THEN <<>>
        ELSE LET proportions ==
                    BalanceLoop(lots, dc_target, [i \in 1..n |-> PropOne \div n], 0)
                 want == [i \in 1..n |-> (target_kg * proportions[i]) \div PropOne]
             IN  AtLeast90(ClampAndFloor(lots, want), target_kg)

\* BlendOptimizer._weighted_allocation_v2: weight 1 / (1 + distance / 10)
WeightedAllocationV2(lots, target_kg, dc_target) ==
    LET n == Len(lots)
        weights == [i \in 1..n |->
                      (10 * PropOne) \div (10 + Abs(lots[i].dc_real - dc_target))]
        total_weight == SeqSum(weights)
    IN  IF total_weight = 0 THEN <<>>
        ELSE LET want == [i \in 1..n |-> (target_kg * weights[i]) \div total_weight]
             IN  AtLeast90(ClampAndFloor(lots, want), target_kg)

RECURSIVE GreedyBalancedLoop(_, _, _, _, _)
GreedyBalancedLoop(sorted_lots, dc_target, i, remaining, allocation) ==
    IF i > Len(sorted_lots) \/ remaining <= 0 THEN allocation
    ELSE LET lot == sorted_lots[i]
             near == Abs(DcKgSum(allocation) - dc_target * TotalKg(allocation))
                        < TotalKg(allocation)
             share10 == IF Len(allocation) = 0 THEN 5
                        ELSE IF near THEN 3 ELSE 5
             kg == Min((remaining * share10) \div 10, MaxUsable(lot))
         IN  IF kg >= Kg(MinLotUsageKg)
             THEN GreedyBalancedLoop(sorted_lots, dc_target, i + 1, remaining - kg,
                                     Append(allocation, [lot |-> lot, kg |-> kg]))
             ELSE GreedyBalancedLoop(sorted_lots, dc_target, i + 1, remaining, allocation)

\* BlendOptimizer._greedy_balanced_allocation
GreedyBalancedAllocation(lots, target_kg, dc_target) ==
    LET sorted_lots ==
            SortByKeys(lots, [i \in 1..Len(lots) |-> <<Abs(lots[i].dc_real - dc_target)>>])
    IN  AtLeast90(GreedyBalancedLoop(sorted_lots, dc_target, 1, target_kg, <<>>), target_kg)

\* BlendOptimizer._allocate_with_strategy
AllocateWithStrategy(lots, target_kg, dc_target, strategy) ==
    CASE strategy = "balanced" -> BalancedAllocation(lots, target_kg, dc_target)
      [] strategy = "weighted" -> WeightedAllocationV2(lots, target_kg, dc_target)
      [] strategy = "greedy" -> GreedyBalancedAllocation(lots, target_kg, dc_target)
      [] OTHER -> <<>>

\* |dc of allocation a - target| < |dc of allocation b - target|
DcDiffLess(a, b, dc_target) ==
    Abs(DcKgSum(a) - dc_target * TotalKg(a)) * TotalKg(b)
        < Abs(DcKgSum(b) - dc_target * TotalKg(b)) * TotalKg(a)

\* the best-of-three loop of _calculate_optimal_allocation: the first
\* allocation with the strictly smallest distance to the DC target
RECURSIVE BestOf(_, _, _)
BestOf(allocations, best, dc_target) ==
    IF allocations = <<>> THEN best
    ELSE LET a == Head(allocations)
         IN  IF a # <<>> /\ TotalKg(a) > 0 /\ (best = <<>> \/ DcDiffLess(a, best, dc_target))
             THEN BestOf(Tail(allocations), a, dc_target)
             ELSE BestOf(Tail(allocations), best, dc_target)

\* BlendOptimizer._calculate_optimal_allocation
CalculateOptimalAllocation(lots, target_kg, requirements) ==
    LET dc_target == requirements.dc_target
        valid_lots == SelectSeq(lots, LAMBDA l : l.dc_real # None)
        dc_values == {valid_lots[i].dc_real : i \in 1..Len(valid_lots)}
        dc_min == CHOOSE v \in dc_values : \A w \in dc_values : v <= w
        dc_max == CHOOSE v \in dc_values : \A w \in dc_values : v >= w
    IN  IF lots = <<>> THEN <<>>
        ELSE IF dc_target = None THEN SimpleAllocation(lots, target_kg)
        ELSE IF valid_lots = <<>> THEN <<>>
        ELSE IF dc_max - dc_min < 2 THEN UniformAllocation(valid_lots, target_kg)
        ELSE IF dc_target < dc_min - 5 \/ dc_target > dc_max + 5
             THEN SimpleAllocation(valid_lots, target_kg)
        ELSE BestOf(<< AllocateWithStrategy(valid_lots, target_kg, dc_target, "balanced"),
                       AllocateWithStrategy(valid_lots, target_kg, dc_target, "weighted"),
                       AllocateWithStrategy(valid_lots, target_kg, dc_target, "greedy") >>,
                    <<>>, dc_target)

---------------------------------------------------------------------------
\* optimizer.py: combination generator

\* Python truthiness of an Optional[float]: None and 0 are false
Truthy(x) == x # None /\ x # 0

\* the loop of _greedy_combination over the candidates;
\* current_dc_sum is the sum of dc_real * kg
RECURSIVE GreedyLoop(_, _, _, _, _, _, _, _)
GreedyLoop(start_lot, candidates, i, target_kg, dc_target, max_lots, combo, current_dc_sum) ==
    LET current_kg == TotalKg(combo)
    IN  IF i > Len(candidates) THEN combo
        ELSE IF candidates[i] = start_lot
             THEN GreedyLoop(start_lot, candidates, i + 1, target_kg, dc_target,
                             max_lots, combo, current_dc_sum)
        ELSE IF Len(combo) >= max_lots \/ current_kg >= target_kg THEN combo
        ELSE LET lot == candidates[i]
                 remaining_kg == target_kg - current_kg
                 kg_to_add == Min(remaining_kg,
                                  Min((lot.qty_available * 9) \div 10,
                                      (target_kg * 3) \div 10))
                 new_kg == current_kg + kg_to_add
                 new_dc_sum == current_dc_sum + lot.dc_real * kg_to_add
                 \* abs(new_dc_avg - t) <= abs(current_dc_avg - t) + 5
                 improves ==
                    IF current_kg > 0
                    THEN Abs(new_dc_sum - dc_target * new_kg) * current_kg
                            <= (Abs(current_dc_sum - dc_target * current_kg)
                                  + 5 * current_kg) * new_kg
                    ELSE Abs(new_dc_sum - dc_target * new_kg)
                            <= (dc_target + 5) * new_kg
                 added == Append(combo, [lot |-> lot, kg |-> kg_to_add])
             IN  IF kg_to_add < Kg(MinLotUsageKg)
                 THEN GreedyLoop(start_lot, candidates, i + 1, target_kg, dc_target,
                                 max_lots, combo, current_dc_sum)
                 ELSE IF Truthy(dc_target) /\ Truthy(lot.dc_real)
                 THEN IF improves
                      THEN GreedyLoop(start_lot, candidates, i + 1, target_kg, dc_target,
                                      max_lots, added, new_dc_sum)
                      ELSE GreedyLoop(start_lot, candidates, i + 1, target_kg, dc_target,
                                      max_lots, combo, current_dc_sum)
                 ELSE GreedyLoop(start_lot, candidates, i + 1, target_kg, dc_target,
                                 max_lots, added,
                                 IF Truthy(lot.dc_real) THEN new_dc_sum ELSE current_dc_sum)

GreedyCombinationNoMaxLots(start_lot, candidates, target_kg, requirements, max_lots) ==
    LET seed_kg == Min((target_kg * 3) \div 10, (start_lot.qty_available * 9) \div 10)
        combo == GreedyLoop(start_lot, candidates, 1, target_kg, requirements.dc_target,
                            Len(candidates), << [lot |-> start_lot, kg |-> seed_kg] >>,
                            IF Truthy(start_lot.dc_real)
                            THEN start_lot.dc_real * seed_kg ELSE 0)
    IN  IF Len(combo) >= 2 THEN combo ELSE <<>>

\* BlendOptimizer._greedy_combination
GreedyCombination(start_lot, candidates, target_kg, requirements, max_lots) ==
    LET seed_kg == Min((target_kg * 3) \div 10, (start_lot.qty_available * 9) \div 10)
        combo == GreedyLoop(start_lot, candidates, 1, target_kg, requirements.dc_target,
                            max_lots, << [lot |-> start_lot, kg |-> seed_kg] >>,
                            IF Truthy(start_lot.dc_real)
                            THEN start_lot.dc_real * seed_kg ELSE 0)
    IN  IF Len(combo) >= 2 THEN combo ELSE <<>>

\* itertools.combinations(range(lo, hi + 1), n), in its order
RECURSIVE IndexCombinations(_, _, _)
IndexCombinations(lo, hi, n) ==
    IF n = 0 THEN << <<>> >>
    ELSE IF hi - lo + 1 < n THEN <<>>
    ELSE LET with == IndexCombinations(lo + 1, hi, n - 1)
         IN  [k \in 1..Len(with) |-> <<lo>> \o with[k]]
                \o IndexCombinations(lo + 1, hi, n)

\* the candidate pool of _generate_combinations for subsets of n_lots lots
CandidatePool(candidates, n_lots) ==
    IF n_lots <= 5 THEN Take(candidates, Min(300, Len(candidates)))
    ELSE IF n_lots <= 7 THEN Take(candidates, 200)
    ELSE Take(candidates, 150)

\* the non-empty allocations of the subsets of n_lots lots, in order
SubsetAllocations(candidates, n_lots, requirements) ==
    LET pool == CandidatePool(candidates, n_lots)
        idx == IndexCombinations(1, Len(pool), n_lots)
        allocs == [k \in 1..Len(idx) |->
                     CalculateOptimalAllocation(
                         [j \in 1..n_lots |-> pool[idx[k][j]]],
                         requirements.quantity_kg, requirements)]
    IN  SelectSeq(allocs, LAMBDA a : a # <<>>)

\* BlendOptimizer._generate_combinations.  Both loops of the enumeration stop
\* once max_combinations allocations are collected; the greedy seeds follow.
GenerateCombinations(candidates, requirements) ==
    LET target_kg == requirements.quantity_kg
        max_lots == requirements.max_lots
        enumerated ==
            Take(Flatten([m \in 1..Max(0, max_lots - 1) |->
                            SubsetAllocations(candidates, m + 1, requirements)]),
                 MaxCombinations)
        seeds == Take(candidates, 100)
        greedy == [k \in 1..Len(seeds) |->
                     GreedyCombination(seeds[k], candidates, target_kg,
                                       requirements, max_lots)]
    IN  enumerated \o SelectSeq(greedy, LAMBDA c : c # <<>>)

\* the signature of a combination: the sorted tuple of its lot codes, kept
\* as the bag of lot codes (two tuples sort alike iff their bags are equal)
LotCodes(combo) ==
    [code \in {combo[i].lot.lot_code : i \in 1..Len(combo)} |->
        Cardinality({i \in 1..Len(combo) : combo[i].lot.lot_code = code})]

RECURSIVE DedupLoop(_, _, _)
DedupLoop(combinations, unique_combinations, seen_lot_sets) ==
    IF combinations = <<>> THEN unique_combinations
    ELSE LET combo == Head(combinations)
             lot_codes == LotCodes(combo)
         IN  IF lot_codes \notin seen_lot_sets
             THEN DedupLoop(Tail(combinations), Append(unique_combinations, combo),
                            seen_lot_sets \cup {lot_codes})
             ELSE DedupLoop(Tail(combinations), unique_combinations, seen_lot_sets)

DeduplicateCombinationsOff(combinations) == combinations

\* BlendOptimizer._deduplicate_combinations
DeduplicateCombinations(combinations) == DedupLoop(combinations, <<>>, {})

---------------------------------------------------------------------------
\* optimizer.py: BlendSolution and the scorer

\* floor(a * x / y) for x >= 0, y > 0, without forming a * x
MulDiv(a, x, y) == a * (x \div y) + (a * (x % y)) \div y

WeightedAverageOverTotal(lots, field) ==
    LET has == SelectSeq(lots, LAMBDA a : a.lot[field] # None)
        kg_total == TotalKg(has)
    IN  IF kg_total > 0
        THEN [n |-> SeqSum([i \in 1..Len(has) |-> has[i].lot[field] * has[i].kg]),
              d |-> TotalKg(lots)]
        ELSE [n |-> 0, d |-> 1]

\* one weighted average of BlendSolution._calculate_metrics, as a fraction:
\* the lots lacking the field are left out of numerator and denominator
WeightedAverage(lots, field) ==
    LET has == SelectSeq(lots, LAMBDA a : a.lot[field] # None)
        kg_total == TotalKg(has)
    IN  IF kg_total > 0
        THEN [n |-> SeqSum([i \in 1..Len(has) |-> has[i].lot[field] * has[i].kg]),
              d |-> kg_total]
        ELSE [n |-> 0, d |-> 1]

Zero == [n |-> 0, d |-> 1]

DeviationZero(avg, target) == 0

\* |avg - target| as a numerator over avg.d
Deviation(avg, target) == Abs(avg.n - target * avg.d)

\* BlendSolution.__post_init__: _calculate_metrics and _check_conformity
NewBlendSolution(lots, requirements) ==
    LET total_kg == IF lots = <<>> THEN 0 ELSE TotalKg(lots)
        Avg(field) == IF total_kg = 0 THEN Zero ELSE WeightedAverage(lots, field)
        dc == Avg("dc_real")
        fp == Avg("fp_real")
        duck == Avg("duck_real")
        oe == Avg("other_elements_real")
    IN  [lots |-> lots,
         total_kg |-> total_kg,
         dc_average |-> dc,
         fp_average |-> fp,
         duck_average |-> duck,
         oe_average |-> oe,
         feather_average |-> Avg("feather_real"),
         meets_dc_target |->
            IF requirements.dc_target # None
            THEN Deviation(dc, requirements.dc_target) <= requirements.dc_tolerance * dc.d
            ELSE TRUE,
         meets_fp_target |->
            IF requirements.fp_target # None
            THEN Deviation(fp, requirements.fp_target) <= requirements.fp_tolerance * fp.d
            ELSE TRUE,
         meets_duck_target |->
            IF requirements.duck_target # None
            THEN Deviation(duck, requirements.duck_target)
                    <= requirements.duck_tolerance * duck.d
            ELSE TRUE,
         meets_oe_target |->
            IF requirements.max_oe # None
            THEN oe.n <= requirements.max_oe * oe.d
            ELSE TRUE,
         score |-> 0]

IsValidNoMassFloor(solution, requirements) ==
    /\ solution.meets_dc_target
    /\ solution.meets_fp_target
    /\ solution.meets_duck_target
    /\ solution.meets_oe_target
    /\ solution.total_kg > 0
    /\ Len(solution.lots) > 0

IsValidIgnoresFp(solution, requirements) ==
    /\ solution.meets_dc_target
    /\ solution.meets_duck_target
    /\ solution.meets_oe_target
    /\ solution.total_kg * 10 >= requirements.quantity_kg * 9
    /\ Len(solution.lots) > 0

\* BlendSolution.is_valid
IsValid(solution, requirements) ==
    /\ solution.meets_dc_target
    /\ solution.meets_fp_target
    /\ solution.meets_duck_target
    /\ solution.meets_oe_target
    /\ solution.total_kg * 10 >= requirements.quantity_kg * 9
    /\ Len(solution.lots) > 0

\* _score_dc_match and _score_fp_match, in hundredths:
\* weight * (1 - dev / tol) within tolerance, -weight * (dev - tol) / tol outside
ScoreMatch(avg, target, tolerance, weight) ==
    LET dev == Deviation(avg, target)
        tol == tolerance * avg.d
    IN  IF dev <= tol
        THEN MulDiv(100 * weight, tol - dev, tol)
        ELSE -MulDiv(100 * weight, dev - tol, tol)

\* CompatibilityManager.calculate_duck_content_score divides by duck_target
\* in its two penalty branches
DuckScoreRaises(actual_duck, duck_target, duck_tolerance) ==
    /\ duck_target = 0
    /\ \/ actual_duck.n < (duck_target - duck_tolerance) * actual_duck.d
       \/ actual_duck.n > (duck_target + duck_tolerance) * actual_duck.d

\* CompatibilityManager.calculate_duck_content_score, in hundredths
CalculateDuckContentScore(actual_duck, duck_target, duck_tolerance) ==
    LET n == actual_duck.n
        d == actual_duck.d
    IN  IF duck_target = None THEN 0
        ELSE IF n < (duck_target - duck_tolerance) * d
             THEN -MulDiv(100 * 500, duck_target * d - n, duck_target * d)
        ELSE IF n > (duck_target + duck_tolerance) * d
             THEN -MulDiv(100 * 200, n - duck_target * d, duck_target * d)
        ELSE MulDiv(100 * 600, duck_tolerance * d - Deviation(actual_duck, duck_target),
                    duck_tolerance * d)

\* sum over the lots of term[lot] * kg_used / total_kg, rounded down;
\* term is a function of the lots of the solution
ShareWeighted(solution, term) ==
    IF solution.total_kg > 0
    THEN SeqSum([k \in 1..Len(solution.lots) |->
                    term[solution.lots[k].lot] * solution.lots[k].kg])
            \div solution.total_kg
    ELSE 0

\* the lots of a solution
LotsOf(solution) == {solution.lots[k].lot : k \in 1..Len(solution.lots)}

\* _score_disposal_priority, in hundredths: quality * weight * 0.5
ScoreDisposalPriority(solution) ==
    ShareWeighted(solution, [lot \in LotsOf(solution) |-> 25 * QualityScore2(lot)])

\* the penalty of the n-th lot in _score_lot_count
LotCountStep(n) == IF n <= 7 THEN -25 ELSE IF n <= 9 THEN -50 ELSE -100

\* _score_lot_count, in hundredths
ScoreLotCount(solution) ==
    LET num_lots == Len(solution.lots)
    IN  IF num_lots <= IdealLotsPerBlend THEN 0
        ELSE 100 * SeqSum([k \in 1..(num_lots - IdealLotsPerBlend) |->
                              LotCountStep(IdealLotsPerBlend + k)])

\* _score_species_compatibility, in hundredths
ScoreSpeciesCompatibility(solution, requirements) ==
    IF requirements.species = NoneStr \/ requirements.species = "" THEN 0
    ELSE IF requirements.species = "O" /\ Truthy(requirements.duck_target)
            /\ requirements.duck_target > 0
    THEN ShareWeighted(solution,
            [lot \in LotsOf(solution) |->
                         IF lot.product.species = "OA"
                         THEN 100 * SpeciesOptimizationBonus
                         ELSE IF lot.product.species = "A"
                         THEN 50 * SpeciesMismatchPenalty
                         ELSE 0])
    ELSE 0

\* _score_estimated_data, in hundredths
ScoreEstimatedData(solution, requirements) ==
    ShareWeighted(solution,
        [lot \in LotsOf(solution) |->
            100 * EstimatedDataPenalty
              * ((IF requirements.dc_target # None /\ lot.dc_was_imputed THEN 1 ELSE 0)
                 + (IF requirements.fp_target # None /\ lot.fp_was_imputed THEN 1 ELSE 0))])

\* _score_dc_overqualification, in hundredths
ScoreDcOverqualification(solution, requirements) ==
    IF requirements.dc_target = None THEN 0
    ELSE ShareWeighted(solution,
            [lot \in LotsOf(solution) |->
                IF lot.dc_real # None
                   /\ lot.dc_real - requirements.dc_target > DcOverqualificationThreshold
                THEN -(100 * (lot.dc_real - requirements.dc_target)
                           * (lot.dc_real - requirements.dc_target))
                ELSE 0])

\* BlendOptimizer._evaluate_combination raises ZeroDivisionError
EvaluateRaises(combination, requirements) ==
    /\ requirements.duck_target # None
    /\ DuckScoreRaises(NewBlendSolution(combination, requirements).duck_average,
                       requirements.duck_target, requirements.duck_tolerance)

\* BlendOptimizer._evaluate_combination
EvaluateCombination(combination, requirements) ==
    LET solution == NewBlendSolution(combination, requirements)
        score ==
              (IF requirements.dc_target # None
               THEN ScoreMatch(solution.dc_average, requirements.dc_target,
                               requirements.dc_tolerance, DcTargetMatch)
               ELSE 0)
            + (IF requirements.fp_target # None
               THEN ScoreMatch(solution.fp_average, requirements.fp_target,
                               requirements.fp_tolerance, FpTargetMatch)
               ELSE 0)
            + (IF requirements.duck_target # None
               THEN CalculateDuckContentScore(solution.duck_average,
                        requirements.duck_target, requirements.duck_tolerance)
               ELSE 0)
            + ScoreDisposalPriority(solution)
            + ScoreLotCount(solution)
            + ScoreSpeciesCompatibility(solution, requirements)
            + ScoreEstimatedData(solution, requirements)
            + ScoreDcOverqualification(solution, requirements)
    IN  [solution EXCEPT !.score = score]

\* BlendOptimizer._quick_validate_combination
QuickValidateCombination(combo, requirements) ==
    LET total_kg == TotalKg(combo)
        target_kg == requirements.quantity_kg
        dc_target == requirements.dc_target
        with_dc == SelectSeq(combo, LAMBDA a : Truthy(a.lot.dc_real))
    IN  IF combo = <<>> THEN FALSE
        ELSE IF total_kg * 10 < target_kg * 7 \/ total_kg * 10 > target_kg * 13 THEN FALSE
        ELSE IF Truthy(dc_target)
                /\ Abs(DcKgSum(with_dc) - dc_target * total_kg) > 10 * total_kg
             THEN FALSE
        ELSE TRUE

---------------------------------------------------------------------------
\* compatibility.py: article codes.  An article code is the list of its
\* '|'-separated parts, each part the list of its characters.

\* Python's "sub in s" on character lists
Contains(sub, s) ==
    \E k \in 0..(Len(s) - Len(sub)) : SubSeq(s, k + 1, k + Len(sub)) = sub

\* s[k:] with k counted from 0
From(s, k) == SubSeq(s, k + 1, Len(s))

\* the keys of SPECIAL_ARTICLE_CODES with what they map to
SpecialArticleCodes ==
    << [code |-> <<"P", "G", "R">>, state |-> "P", species |-> "OA", color |-> "G"],
       [code |-> <<"P", "B", "R">>, state |-> "P", species |-> "OA", color |-> "B"] >>

\* ProductCode._parse_color_flexible on a non-empty character list
ParseColorFlexible(color_str) ==
    LET dot == CHOOSE k \in 1..Len(color_str) :
                  color_str[k] = "." /\ \A j \in 1..(k - 1) : color_str[j] # "."
    IN  IF Join(color_str) \in ColorCodes THEN Join(color_str)
        ELSE IF Contains(<<".">>, color_str)
                /\ Join(Take(color_str, dot - 1)) \in ColorCodes
             THEN Join(Take(color_str, dot - 1))
        ELSE IF Len(color_str) >= 3 /\ Join(Take(color_str, 3)) \in ColorCodes
             THEN Join(Take(color_str, 3))
        ELSE IF Len(color_str) >= 2 /\ Join(Take(color_str, 2)) \in ColorCodes
             THEN Join(Take(color_str, 2))
        ELSE IF Len(color_str) >= 1 /\ color_str[1] \in ColorCodes
             THEN color_str[1]
        ELSE Join(color_str)

\* ProductCode.__post_init__ and _parse_code
ParseProductCode(raw_code) ==
    LET parts == raw_code
        blank == [raw_code |-> raw_code, group |-> NoneStr, state |-> NoneStr,
                  species |-> NoneStr, color |-> NoneStr, certification |-> NoneStr]
        temp_main_code == IF Len(parts) >= 2 THEN parts[2] ELSE parts[1]
        matches == SelectSeq(SpecialArticleCodes,
                             LAMBDA sp : Contains(sp.code, temp_main_code))
        group == IF Len(parts) >= 2 THEN Join(parts[1]) ELSE NoneStr
        certification == IF Len(parts) >= 3 THEN Join(parts[3]) ELSE NoneStr
        main_code == temp_main_code
        is_oa == Len(main_code) >= 4 /\ SubSeq(main_code, 2, 3) = <<"O", "A">>
        color_part == IF is_oa THEN From(main_code, 3) ELSE From(main_code, 2)
    IN  IF raw_code = << <<>> >> THEN blank
        ELSE IF matches # <<>>
        THEN [blank EXCEPT !.state = matches[1].state,
                           !.species = matches[1].species,
                           !.color = matches[1].color,
                           !.group = group,
                           !.certification = certification]
        ELSE IF Len(main_code) >= 3
        THEN [blank EXCEPT !.group = group,
                           !.certification = certification,
                           !.state = main_code[1],
                           !.species = IF is_oa THEN "OA" ELSE main_code[2],
                           !.color = IF color_part # <<>>
                                     THEN ParseColorFlexible(color_part)
                                     ELSE NoneStr]
        ELSE [blank EXCEPT !.group = group, !.certification = certification]

\* a LotData as the optimizer sees it: the fields the loader fills, with
\* product parsed from the article code (LotData.__post_init__) and
\* is_estimated set from dc_was_imputed (_check_estimated_data)
LotData(lot_code, article_code, dc_real, fp_real, duck_real, other_elements_real, qty_available, cost_per_kg, dc_was_imputed) ==
    [lot_code |-> lot_code,
     article_code |-> article_code,
     product |-> ParseProductCode(article_code),
     dc_real |-> dc_real,
     fp_real |-> fp_real,
     duck_real |-> duck_real,
     other_elements_real |-> other_elements_real,
     feather_real |-> None,
     total_fibres_real |-> None,
     broken_real |-> None,
     landfowl_real |-> None,
     qty_available |-> qty_available,
     cost_per_kg |-> cost_per_kg,
     is_estimated |-> dc_was_imputed,
     quality_nominal |-> <<>>,
     dc_was_imputed |-> dc_was_imputed,
     fp_was_imputed |-> FALSE]

---------------------------------------------------------------------------
\* optimizer_service.py, inventory_service.py: loading and answering

\* InventoryService.parse_article_code, the group_code it stores with a lot
GroupCode(article_code) ==
    LET parts == article_code
        groups == {k \in 1..Len(parts) : Join(parts[k]) \in {"3", "G"}}
    IN  IF \E k \in 1..Len(parts) :
              Contains(<<"P", "G", "R">>, parts[k]) \/ Contains(<<"P", "B", "R">>, parts[k])
        THEN NoneStr
        ELSE IF groups = {} THEN NoneStr
        ELSE Join(parts[CHOOSE k \in groups : \A j \in groups : j <= k])

\* OptimizerService.load_lots_from_db: the rows with available_kg > 0, less
\* those of group G when the request excludes raw materials
LoadLotsFromDb(db, exclude_raw) ==
    SelectSeq(db, LAMBDA l :
                     /\ l.qty_available > 0
                     /\ exclude_raw => GroupCode(l.article_code) # "G")

LotsSortedInPlace(lots, requirements, allow_estimated) ==
    FilterCandidates(lots, requirements, allow_estimated)

\* self.inventory.lots once _filter_candidates has run: filter_lots works on
\* self.lots.copy() and the in-place sort is applied to the list
\* _filter_candidates built, so the inventory's list keeps members and order
LotsAfterFilterCandidates(lots, requirements, allow_estimated) == lots

\* optimize_blend without a solution: which ValueError it raises, from the
\* candidate filter run without and with the estimated lots
FailureCategory(lots, requirements, allow_estimated) ==
    LET candidates_real == FilterCandidates(lots, requirements, FALSE)
        candidates_with_est == FilterCandidates(lots, requirements, TRUE)
        estimated_available == Len(candidates_with_est) - Len(candidates_real)
    IN  IF estimated_available > 0 /\ ~allow_estimated THEN "try_estimated"
        ELSE IF Len(candidates_real) = 0 /\ Len(candidates_with_est) = 0
             THEN "no_candidates"
        ELSE "no_combination"

\* kilograms in hundredths, as round(kg, 2) keeps them, from tenths
Round2(kg) == 10 * kg

\* one solution of the API response built by optimize_blend: the lots found
\* in the database with their kg_used, and total_kg taken from the request
ApiSolution(idx, solution, requirements, db) ==
    LET found == SelectSeq(solution.lots,
                           LAMBDA a : \E k \in 1..Len(db) :
                                         /\ db[k].article_code = a.lot.article_code
                                         /\ db[k].lot_code = a.lot.lot_code)
        blend_lots == [k \in 1..Len(found) |->
                          [lot_code |-> found[k].lot.lot_code,
                           article_code |-> found[k].lot.article_code,
                           kg_used |-> Round2(found[k].kg)]]
    IN  [solution_number |-> idx,
         lots |-> blend_lots,
         num_lots |-> Len(blend_lots),
         total_kg |-> Round2(requirements.quantity_kg),
         score |-> solution.score]

---------------------------------------------------------------------------
\* optimizer.py: the stages of BlendOptimizer.optimize

\* _generate_combinations_diverse, strategies 1 to 3: DC order, cost order,
\* quantity order, each skipped once target_combinations is reached
OrderedStrategies(candidates, requirements, num_solutions) ==
    LET target_combinations == num_solutions * 5000
        n == Len(candidates)
        combo1 == GenerateCombinations(candidates, requirements)
        candidates_by_cost ==
            SortByKeys(candidates,
                       [k \in 1..n |-> << IF candidates[k].cost_per_kg # None
                                          THEN candidates[k].cost_per_kg ELSE 999 >>])
        combo2 == GenerateCombinations(Take(candidates_by_cost, 300), requirements)
        candidates_by_qty ==
            SortByKeys(candidates, [k \in 1..n |-> << -candidates[k].qty_available >>])
        combo3 == GenerateCombinations(Take(candidates_by_qty, 300), requirements)
    IN  IF Len(combo1) >= target_combinations THEN combo1
        ELSE IF Len(combo1 \o combo2) >= target_combinations THEN combo1 \o combo2
        ELSE combo1 \o combo2 \o combo3

\* _generate_combinations_diverse before deduplication: strategy 4 appended
\* to what strategies 1 to 3 collected.  combo_rand1 and combo_rand2 are what
\* _generate_combinations returns for the two shuffled copies of candidates.
GenerateCombinationsDiverse(ordered, num_solutions, combo_rand1, combo_rand2) ==
    LET target_combinations == num_solutions * 5000
    IN  IF Len(ordered) >= target_combinations THEN ordered
        ELSE IF Len(ordered \o combo_rand1) >= target_combinations
             THEN ordered \o combo_rand1
        ELSE ordered \o combo_rand1 \o combo_rand2

\* the candidates in the order a shuffle p leaves them
Shuffled(candidates, p) == [k \in 1..Len(candidates) |-> candidates[p[k]]]

\* solutions.sort(key=score, reverse=True): descending, equal scores keep
\* their order
SortSolutionsAscending(solutions) ==
    SortByKeys(solutions, [k \in 1..Len(solutions) |-> << solutions[k].score >>])

SortSolutions(solutions) ==
    SortByKeys(solutions, [k \in 1..Len(solutions) |-> << -solutions[k].score >>])

TopSolutionsAll(sorted, num_solutions) == sorted

\* solutions[:num_solutions]
TopSolutions(sorted, num_solutions) == Take(sorted, num_solutions)

EarlyStopThresholdLate(num_solutions) == num_solutions * 10 + 1

\* the early-stop threshold of the scoring loop
EarlyStopThreshold(num_solutions) == num_solutions * 10

---------------------------------------------------------------------------
\* Inventories and requests explored

MaxInventory == 4
MaxNumSolutions == 2
MaxCalls == 2

Chars3 == <<"3">>
POB == << Chars3, <<"P", "O", "B">> >>
POG == << Chars3, <<"P", "O", "G">> >>
PAB == << Chars3, <<"P", "A", "B">> >>
POAB == << Chars3, <<"P", "O", "A", "B">> >>
OOB == << Chars3, <<"O", "O", "B">> >>
POBGWR == << Chars3, <<"P", "O", "B">>, <<"G", "W", "R">> >>
GPOB == << <<"G">>, <<"P", "O", "B">> >>
PXB == << Chars3, <<"P", "X", "B">> >>
MOB == << Chars3, <<"M", "O", "B">> >>
SOB == << Chars3, <<"S", "O", "B">> >>
XOB == << Chars3, <<"X", "O", "B">> >>

\* two large equal lots, a 10 kg lot, an estimated lot
StockLarge ==
    << LotData("L1", POB, 80, 700, 5, 2, Kg(200), 12, FALSE),
       LotData("L2", POB, 80, 700, 5, 2, Kg(200), 12, FALSE),
       LotData("L3", POB, 60, 600, 5, 4, Kg(10), 8, FALSE),
       LotData("L4", POB, 50, 600, 5, 2, Kg(35), None, TRUE) >>

\* three 30 kg lots, two of them under one lot code; a raw-material lot and
\* a water-repellent lot
StockSmall ==
    << LotData("S1", POB, 80, 700, 5, 2, Kg(30), 12, FALSE),
       LotData("S1", POG, 78, 690, 5, 2, Kg(30), 10, FALSE),
       LotData("S3", POB, 76, None, None, None, Kg(30), None, FALSE),
       LotData("S4", GPOB, 80, 700, 5, 2, Kg(200), 5, FALSE),
       LotData("S5", POBGWR, 80, 700, 5, 2, Kg(200), 12, FALSE) >>

\* four lots of one DC whose fill powers straddle 700
StockFp ==
    << LotData("F1", POB, 85, 696, 5, 2, Kg(60), 20, FALSE),
       LotData("F2", POB, 85, 698, 5, 2, Kg(60), 20, FALSE),
       LotData("F3", POB, 85, 701, 5, 2, Kg(60), 20, FALSE),
       LotData("F4", POB, 85, 705, 5, 2, Kg(60), 20, FALSE) >>

\* lots of the three species; an "original" lot and a lot below the
\* minimum quantity
StockSpecies ==
    << LotData("D1", PAB, 82, 650, 90, 2, Kg(60), 9, FALSE),
       LotData("D2", POB, 50, 650, 5, 40, Kg(60), 30, FALSE),
       LotData("D3", POAB, 88, 650, 50, 2, Kg(80), 15, FALSE),
       LotData("D4", POB, 92, 650, None, 2, Kg(60), 30, TRUE),
       LotData("D5", OOB, 85, 650, 90, 2, Kg(60), 9, FALSE),
       LotData("D6", PAB, 85, 650, 90, 2, Kg(5), 9, FALSE) >>

\* a normal lot, a lot certified GWR, a lot whose quality_nominal says nwr
StockWr ==
    << LotData("W1", POB, 80, 700, 5, 2, Kg(80), 12, FALSE),
       LotData("W2", POBGWR, 80, 700, 5, 2, Kg(80), 12, FALSE),
       [LotData("W3", POB, 80, 700, 5, 2, Kg(80), 12, FALSE)
            EXCEPT !.quality_nominal = <<"n", "w", "r", " ">>] >>

\* one lot of each material state at DC 30 to 50, duck-free but for the
\* first: down of an unknown species, half-down without a fill power,
\* feather, an unknown state, original
StockStates ==
    << LotData("T1", PXB, 50, 600, 5, 2, Kg(200), 12, FALSE),
       LotData("T2", MOB, 40, None, 0, 2, Kg(200), 10, FALSE),
       [LotData("T3", SOB, 30, 600, 0, 0, Kg(200), 8, FALSE)
            EXCEPT !.feather_real = 60],
       LotData("T4", XOB, 45, 600, 0, 2, Kg(200), 8, FALSE),
       LotData("T5", OOB, 45, 600, 0, 2, Kg(200), 8, FALSE) >>

\* the requirements dict OptimizerService builds: quantity 100 kg, the
\* default tolerances and max_lots, no target, no species, no color
Request ==
    [quantity_kg |-> Kg(100), dc_target |-> None, fp_target |-> None,
     duck_target |-> None, max_oe |-> None, species |-> NoneStr, color |-> NoneStr,
     water_repellent |-> FALSE, max_lots |-> MaxLotsPerBlend,
     dc_tolerance |-> DcToleranceDefault, fp_tolerance |-> FpToleranceDefault,
     duck_tolerance |-> DuckToleranceDefault]

Scenarios ==
    { [exclude_raw_materials |-> TRUE, stock |-> StockLarge, request |-> Request],
      [exclude_raw_materials |-> TRUE, stock |-> StockSmall, request |-> Request],
      [exclude_raw_materials |-> TRUE, stock |-> StockSmall, request |-> [Request EXCEPT !.quantity_kg = Kg(50)]],
      [exclude_raw_materials |-> TRUE, stock |-> StockSmall,
       request |-> [Request EXCEPT !.quantity_kg = Kg(50), !.dc_target = 78,
                                   !.fp_target = 700, !.max_oe = 3]],
      [exclude_raw_materials |-> TRUE, stock |-> StockFp, request |-> [Request EXCEPT !.dc_target = 85, !.fp_target = 700]],
      [exclude_raw_materials |-> TRUE, stock |-> StockSpecies, request |-> [Request EXCEPT !.species = "A"]],
      [exclude_raw_materials |-> TRUE, stock |-> StockSpecies,
       request |-> [Request EXCEPT !.species = "A", !.duck_target = 0]],
      [exclude_raw_materials |-> TRUE, stock |-> StockSpecies,
       request |-> [Request EXCEPT !.species = "O", !.dc_target = 85,
                                   !.duck_target = 40]],
      [exclude_raw_materials |-> TRUE, stock |-> StockWr, request |-> Request],
      [exclude_raw_materials |-> TRUE, stock |-> StockWr,
       request |-> [Request EXCEPT !.water_repellent = TRUE]],
      [exclude_raw_materials |-> FALSE, stock |-> << StockSmall[1], StockSmall[4] >>,
       request |-> [Request EXCEPT !.quantity_kg = Kg(50)]],
      [exclude_raw_materials |-> TRUE, stock |-> SubSeq(StockSmall, 1, 3),
       request |-> [Request EXCEPT !.quantity_kg = Kg(50), !.max_lots = 2]],
      [exclude_raw_materials |-> TRUE, stock |-> StockStates, request |-> Request],
      [exclude_raw_materials |-> TRUE, stock |-> StockStates,
       request |-> [Request EXCEPT !.dc_target = 30]],
      [exclude_raw_materials |-> TRUE, stock |-> StockStates,
       request |-> [Request EXCEPT !.dc_target = 40]],
      [exclude_raw_materials |-> TRUE, stock |-> StockStates,
       request |-> [Request EXCEPT !.dc_target = 55]] }

\* the sub-lists of a list, in its order
RECURSIVE SubLists(_)
SubLists(s) ==
    IF s = <<>> THEN { <<>> }
    ELSE LET rest == SubLists(Tail(s))
         IN  rest \cup { <<Head(s)>> \o t : t \in rest }

---------------------------------------------------------------------------
\* One BlendOptimizer over one inventory, called with the same arguments up
\* to MaxCalls times.

VARIABLES
    db_lots,          \* the active InventoryLot rows of the database
    exclude_raw_materials,  \* BlendRequirements.exclude_raw_materials
    inventory,        \* InventoryManager.lots
    requirements,     \* the requirements dict of the call
    num_solutions,
    allow_estimated,
    pc,               \* where the request is: "load", "filter", "generate",
                      \* "score", "sort", "done" (optimize returned),
                      \* "raised" (ZeroDivisionError), "responded",
                      \* and the ValueErrors of optimize_blend: "no_lots",
                      \* "try_estimated", "no_candidates", "no_combination"
    candidates,       \* Step 1
    generated,        \* number of combinations before deduplication
    combinations,     \* Step 2
    i,                \* index of the next combination to score (from 1)
    solutions,        \* Step 3
    result,           \* the returned list
    calls,            \* number of calls started
    prev_result,      \* what the previous call returned
    api_solutions,    \* the solutions of the OptimizationResult
    rerun,            \* the request repeats one that was answered
                      \* "try_estimated", now with allow_estimated
    row,              \* a row of an inventory table, as the loaders read it
    loaded,           \* the lot built from the row
    first_pass,       \* the lot as the first run of the imputation left it
    table,            \* the rows of an uploaded CSV
    stored,           \* inventory_lots, as committed
    uploads,          \* inventory_uploads, as committed
    session,          \* the two tables as the open transaction sees them
    optimization_cache,  \* request_id -> OptimizationResult
    response          \* what the last endpoint call answered

vars == << db_lots, exclude_raw_materials, inventory, requirements, num_solutions,
           allow_estimated, pc, candidates, generated, combinations, i, solutions,
           result, calls, prev_result, api_solutions, rerun,
           row, loaded, first_pass, table, stored, uploads, session,
           optimization_cache, response >>

\* the loaders, the upload and the result cache, which optimize leaves alone
elsewhere == << row, loaded, first_pass, table, stored, uploads, session,
                optimization_cache, response >>

ElsewhereIdle ==
    /\ row = <<>>
    /\ loaded = <<>>
    /\ first_pass = <<>>
    /\ table = <<>>
    /\ stored = <<>>
    /\ uploads = <<>>
    /\ session = <<>>
    /\ optimization_cache = <<>>
    /\ response = <<>>

\* what the request carries, and the database
request == << db_lots, exclude_raw_materials, requirements, num_solutions,
              allow_estimated, rerun, elsewhere >>

inputs == << request, inventory >>

Init ==
    /\ \E sc \in Scenarios :
          /\ db_lots \in {db \in SubLists(sc.stock) : Len(db) <= MaxInventory}
          /\ requirements = sc.request
          /\ exclude_raw_materials = sc.exclude_raw_materials
    /\ inventory = <<>>
    /\ num_solutions \in 1..MaxNumSolutions
    /\ allow_estimated \in BOOLEAN
    /\ pc = "load"
    /\ candidates = <<>>
    /\ generated = 0
    /\ combinations = <<>>
    /\ i = 1
    /\ solutions = <<>>
    /\ result = <<>>
    /\ calls = 1
    /\ prev_result = <<>>
    /\ api_solutions = <<>>
    /\ rerun = FALSE
    /\ ElsewhereIdle

\* optimize_blend: load the lots; none: ValueError
LoadStep ==
    /\ pc = "load"
    /\ inventory' = LoadLotsFromDb(db_lots, exclude_raw_materials)
    /\ pc' = IF inventory' = <<>> THEN "no_lots" ELSE "filter"
    /\ UNCHANGED << request, candidates, generated, combinations, i, solutions, result,
                    calls, prev_result, api_solutions >>

\* optimize, Step 1: filter the candidates; none: return []
FilterStep ==
    /\ pc = "filter"
    /\ candidates' = FilterCandidates(inventory, requirements, allow_estimated)
    /\ inventory' = LotsAfterFilterCandidates(inventory, requirements, allow_estimated)
    /\ IF candidates' = <<>>
       THEN pc' = "done" /\ result' = <<>>
       ELSE pc' = "generate" /\ UNCHANGED result
    /\ UNCHANGED << request, generated, combinations, i, solutions, calls, prev_result,
                    api_solutions >>

\* optimize, Step 2: generate the combinations under the four orderings, the
\* last two being shuffles, and deduplicate; none: return []
GenerateStep ==
    /\ pc = "generate"
    /\ \E ordered \in {OrderedStrategies(candidates, requirements, num_solutions)} :
       \E combo_rand \in {[p \in Perms(Len(candidates)) |->
                             GenerateCombinations(Take(Shuffled(candidates, p), 200),
                                                  requirements)]} :
       \E outcome \in
            { LET all_combinations ==
                      GenerateCombinationsDiverse(ordered, num_solutions,
                                                  combo_rand[p1], combo_rand[p2])
              IN  [generated |-> Len(all_combinations),
                   combinations |-> DeduplicateCombinations(all_combinations)] :
              p1 \in Perms(Len(candidates)), p2 \in Perms(Len(candidates)) } :
          /\ generated' = outcome.generated
          /\ combinations' = outcome.combinations
    /\ IF combinations' = <<>>
       THEN pc' = "done" /\ result' = <<>>
       ELSE pc' = "score" /\ UNCHANGED result
    /\ UNCHANGED << inputs, candidates, i, solutions, calls, prev_result,
                    api_solutions >>

\* optimize, Step 3: one turn of the scoring loop
ScoreStep ==
    /\ pc = "score"
    /\ IF i > Len(Take(combinations, MaxCombinations))
       THEN pc' = "sort" /\ UNCHANGED << i, solutions >>
       ELSE LET combo == combinations[i]
                solution == EvaluateCombination(combo, requirements)
            IN  IF ~QuickValidateCombination(combo, requirements)
                THEN i' = i + 1 /\ UNCHANGED << pc, solutions >>
                ELSE IF EvaluateRaises(combo, requirements)
                THEN pc' = "raised" /\ UNCHANGED << i, solutions >>
                ELSE IF IsValid(solution, requirements)
                THEN /\ solutions' = Append(solutions, solution)
                     /\ i' = i + 1
                     /\ pc' = IF Len(solutions') >= EarlyStopThreshold(num_solutions)
                              THEN "sort" ELSE "score"
                ELSE i' = i + 1 /\ UNCHANGED << pc, solutions >>
    /\ UNCHANGED << inputs, candidates, generated, combinations, result, calls,
                    prev_result, api_solutions >>

\* optimize, Step 4: sort by score and return the first num_solutions
ReturnStep ==
    /\ pc = "sort"
    /\ result' = TopSolutions(SortSolutions(solutions), num_solutions)
    /\ pc' = "done"
    /\ UNCHANGED << inputs, candidates, generated, combinations, i, solutions, calls,
                    prev_result, api_solutions >>

\* the caller calls optimize again with the same arguments
OptimizeAgain ==
    /\ pc = "done"
    /\ calls < MaxCalls
    /\ calls' = calls + 1
    /\ prev_result' = result
    /\ pc' = "filter"
    /\ candidates' = <<>>
    /\ generated' = 0
    /\ combinations' = <<>>
    /\ i' = 1
    /\ solutions' = <<>>
    /\ result' = <<>>
    /\ UNCHANGED << inputs, api_solutions >>

\* optimize_blend after optimize returned: no solution: ValueError;
\* otherwise the solutions are converted to the API format
RespondStep ==
    /\ pc = "done"
    /\ IF result = <<>>
       THEN /\ pc' = FailureCategory(inventory, requirements, allow_estimated)
            /\ UNCHANGED api_solutions
       ELSE /\ pc' = "responded"
            /\ api_solutions' = [k \in 1..Len(result) |->
                                    ApiSolution(k, result[k], requirements, db_lots)]
    /\ UNCHANGED << inputs, candidates, generated, combinations, i, solutions, result,
                    calls, prev_result >>

\* the client follows the advice of "try_estimated": the same request on
\* the same inventory with allow_estimated
RerunWithEstimated ==
    /\ pc = "try_estimated"
    /\ allow_estimated' = TRUE
    /\ rerun' = TRUE
    /\ pc' = "load"
    /\ inventory' = <<>>
    /\ candidates' = <<>>
    /\ generated' = 0
    /\ combinations' = <<>>
    /\ i' = 1
    /\ solutions' = <<>>
    /\ result' = <<>>
    /\ calls' = 1
    /\ prev_result' = <<>>
    /\ UNCHANGED << db_lots, exclude_raw_materials, requirements, num_solutions,
                    api_solutions, elsewhere >>

Next ==
    \/ LoadStep
    \/ FilterStep
    \/ GenerateStep
    \/ ScoreStep
    \/ ReturnStep
    \/ OptimizeAgain
    \/ RespondStep
    \/ RerunWithEstimated

Spec == Init /\ [][Next]_vars

---------------------------------------------------------------------------
\* Properties of what optimize returns

Returned == pc = "done"

Indices(seq) == 1..Len(seq)

\* Sigma kg_used of a returned solution, in tenths of kg
UsedKg(solution) == TotalKg(solution.lots)

\* C1 as stated: every returned solution uses between 0.9 Q and 1.1 Q
MassWithinTenPercent ==
    Returned =>
        \A k \in Indices(result) :
            /\ UsedKg(result[k]) * 10 >= requirements.quantity_kg * 9
            /\ Abs(UsedKg(result[k]) - requirements.quantity_kg) * 10
                   <= requirements.quantity_kg

\* C1, amended: every returned solution uses at least 0.9 Q and at most
\* 1.2 Q, whichever allocation path produced it
MassBetween90And120Percent ==
    Returned =>
        \A k \in Indices(result) :
            /\ UsedKg(result[k]) * 10 >= requirements.quantity_kg * 9
            /\ UsedKg(result[k]) * 10 <= requirements.quantity_kg * 12

\* a returned solution uses more than 1.1 Q
OvershootReturned ==
    /\ Returned
    /\ \E k \in Indices(result) :
          UsedKg(result[k]) * 10 > requirements.quantity_kg * 11

\* C2: every lot of every returned solution is used for at least 10 kg and
\* at most 95% of what is available of it
LotUsageWithinLimits ==
    Returned =>
        \A k \in Indices(result) :
            \A j \in Indices(result[k].lots) :
                /\ result[k].lots[j].kg >= Kg(MinLotUsageKg)
                /\ result[k].lots[j].kg * 100
                       <= result[k].lots[j].lot.qty_available * MaxLotUsagePct

\* C3: every returned solution has its four conformity flags true, at least
\* 0.9 Q in total and at least one lot
ReturnedSolutionsValid ==
    Returned =>
        \A k \in Indices(result) :
            /\ result[k].meets_dc_target
            /\ result[k].meets_fp_target
            /\ result[k].meets_duck_target
            /\ result[k].meets_oe_target
            /\ result[k].total_kg * 10 >= requirements.quantity_kg * 9
            /\ Len(result[k].lots) >= 1

\* a solution was returned although the scoring loop refused a combination
\* that had passed the quick validation
ValidReturnedInvalidRefused ==
    /\ Returned
    /\ result # <<>>
    /\ \E k \in 1..(i - 1) :
          /\ QuickValidateCombination(combinations[k], requirements)
          /\ ~IsValid(NewBlendSolution(combinations[k], requirements), requirements)

\* a combination the scoring loop would accept: it passes the quick
\* validation and its solution is valid
Scorable(combo) ==
    /\ QuickValidateCombination(combo, requirements)
    /\ ~EvaluateRaises(combo, requirements)
    /\ IsValid(NewBlendSolution(combo, requirements), requirements)

InResult(solution) == \E k \in Indices(result) : result[k] = solution

\* C4 as stated: over all the deduplicated combinations of the call, no
\* scorable combination left out of the result scores strictly higher than
\* a returned solution, and fewer than num_solutions are returned only if
\* fewer scorable combinations exist
TopAmongAllCombinations ==
    Returned =>
        /\ \A c \in Indices(combinations) :
              (Scorable(combinations[c])
                 /\ ~InResult(EvaluateCombination(combinations[c], requirements)))
              => \A k \in Indices(result) :
                    EvaluateCombination(combinations[c], requirements).score
                        <= result[k].score
        /\ Len(result) < num_solutions =>
              Cardinality({c \in Indices(combinations) : Scorable(combinations[c])})
                  < num_solutions

\* C4, amended: the result is the top num_solutions by score of the valid
\* solutions the scoring loop collected before it stopped, which are the
\* scorable ones among the combinations it visited; no collected solution
\* left out scores strictly higher than a returned one, and fewer than
\* num_solutions are returned only if fewer were collected
TopAmongCollected ==
    Returned =>
        /\ LET visited == SubSeq(combinations, 1, i - 1)
               accepted == SelectSeq(visited, Scorable)
           IN  solutions = [k \in Indices(accepted) |->
                               EvaluateCombination(accepted[k], requirements)]
        /\ \A k \in Indices(result) : \E s \in Indices(solutions) : solutions[s] = result[k]
        /\ \A s \in Indices(solutions) :
              ~InResult(solutions[s])
              => \A k \in Indices(result) : solutions[s].score <= result[k].score
        /\ Len(result) = Min(num_solutions, Len(solutions))

\* the scoring loop stopped early, leaving unvisited a scorable combination
\* that scores higher than what was returned
BetterCombinationNotVisited ==
    /\ Returned
    /\ result # <<>>
    /\ \E c \in i..Len(combinations) :
          /\ Scorable(combinations[c])
          /\ \E k \in Indices(result) :
                EvaluateCombination(combinations[c], requirements).score > result[k].score

\* C5: the returned list is sorted by score, highest first, and has at most
\* num_solutions solutions
SortedAndAtMostNumSolutions ==
    Returned =>
        /\ \A a, b \in Indices(result) : a < b => result[a].score >= result[b].score
        /\ Len(result) <= num_solutions

\* more solutions were collected than asked for, and the sort moved a later
\* one ahead of an earlier one
SortReorderedAndCut ==
    /\ Returned
    /\ Len(solutions) > num_solutions
    /\ Len(result) = num_solutions
    /\ result # SubSeq(solutions, 1, num_solutions)
    /\ result[1].score > result[Len(result)].score

\* C6: no two returned solutions have the same sorted tuple of lot codes
DistinctLotCodes ==
    Returned =>
        \A a, b \in Indices(result) :
            a # b => LotCodes(result[a].lots) # LotCodes(result[b].lots)

\* two solutions were returned after the deduplication had removed
\* combinations
TwoReturnedAfterDuplicatesRemoved ==
    /\ Returned
    /\ Len(result) >= 2
    /\ generated > Len(combinations)

\* C7: a second call with the same inventory and arguments returns the same
\* list as the first
SameResultOnEveryCall ==
    (Returned /\ calls >= 2) => result = prev_result

\* Sigma over the candidates of 0.95 * available is below 0.9 Q
MassInfeasible ==
    SeqSum([k \in Indices(candidates) |-> candidates[k].qty_available])
        * MaxLotUsagePct * 10 < requirements.quantity_kg * 9 * 100

\* C8: when the candidates cannot supply 0.9 Q at 95% each, and when there
\* is a single candidate, nothing is returned
NothingReturnedWhenInfeasible ==
    Returned =>
        /\ MassInfeasible => result = <<>>
        /\ Len(candidates) = 1 => result = <<>>

\* the candidates cannot supply 0.9 Q, yet a combination passed the quick
\* validation and the call returned
InfeasibleButQuickValid ==
    /\ Returned
    /\ MassInfeasible
    /\ \E c \in Indices(combinations) :
          QuickValidateCombination(combinations[c], requirements)

\* C9: with allow_estimated false, no candidate and no lot of a returned
\* solution is estimated
NoEstimatedUnlessAllowed ==
    ~allow_estimated =>
        /\ \A k \in Indices(candidates) : ~candidates[k].is_estimated
        /\ \A k \in Indices(result) :
              \A j \in Indices(result[k].lots) : ~result[k].lots[j].lot.is_estimated

\* a call without allow_estimated returned a solution from an inventory that
\* holds an estimated lot large enough to be used
ReturnedWithEstimatedInStock ==
    /\ Returned
    /\ ~allow_estimated
    /\ result # <<>>
    /\ \E k \in Indices(inventory) :
          inventory[k].is_estimated /\ inventory[k].qty_available >= Kg(MinLotUsageKg)

\* a goose-coded lot with duck_real below 15, a missing duck_real counting 0
GooseLowDuck(lot) ==
    /\ lot.product.species = "O"
    /\ (IF lot.duck_real # None THEN lot.duck_real ELSE 0) < 15

\* C10: for a request of species A no returned solution holds a goose-coded
\* lot whose duck_real is below 15
NoLowDuckGooseInDuckBlend ==
    requirements.species = "A" =>
        \A k \in Indices(result) :
            \A j \in Indices(result[k].lots) : ~GooseLowDuck(result[k].lots[j].lot)

\* a request of species A returned a solution from an inventory that holds
\* a down-state goose-coded lot with duck_real below 15
DuckBlendReturnedWithGooseInStock ==
    /\ Returned
    /\ requirements.species = "A"
    /\ result # <<>>
    /\ \E k \in Indices(inventory) :
          /\ GooseLowDuck(inventory[k])
          /\ inventory[k].product.state = "P"
          /\ inventory[k].qty_available >= Kg(MinLotUsageKg)

---------------------------------------------------------------------------
\* Properties of the candidate filters

\* the lots of the returned solutions
ReturnedLots ==
    UNION { {result[k].lots[j].lot : j \in Indices(result[k].lots)} :
            k \in Indices(result) }

\* the candidate lots
CandidateLots == {candidates[k] : k \in Indices(candidates)}

\* a lot whose certification or whose quality_nominal, trimmed and in upper
\* case, is GWR or NWR
WaterRepellentLot(lot) ==
    \/ lot.product.certification \in {"GWR", "NWR"}
    \/ Join(Strip(Upper(lot.quality_nominal))) \in {"GWR", "NWR"}

\* C11: for a request that requires water-repellent material every
\* candidate is water-repellent, and for a request that does not, no
\* candidate is
NeverMixedWaterRepellent ==
    /\ requirements.water_repellent => \A lot \in CandidateLots : WaterRepellentLot(lot)
    /\ ~requirements.water_repellent => \A lot \in CandidateLots : ~WaterRepellentLot(lot)

\* the lot as it would be under the washed group 3
WithGroup3(lot) ==
    LET code == [lot.article_code EXCEPT ![1] = Chars3]
    IN  [lot EXCEPT !.article_code = code, !.product = ParseProductCode(code)]

\* C12: with exclude_raw_materials no candidate is of group G, and without
\* it every database lot of group G that passes the other filters is a
\* candidate
RawMaterialFilterFollowsFlag ==
    pc \in {"generate", "score", "sort", "done", "responded"} =>
        /\ exclude_raw_materials => \A lot \in CandidateLots : lot.product.group # "G"
        /\ ~exclude_raw_materials =>
              \A k \in Indices(db_lots) :
                  (/\ db_lots[k].product.group = "G"
                   /\ FilterCandidates(<< WithGroup3(db_lots[k]) >>, requirements,
                                       allow_estimated) # <<>>)
                  => db_lots[k] \in CandidateLots

\* state P for any target, M up to a DC target of 50, S up to 30, a missing
\* target admitting all three
StateAdmissible(state, dc_target) ==
    \/ state = "P"
    \/ state = "M" /\ (dc_target = None \/ dc_target <= 50)
    \/ state = "S" /\ (dc_target = None \/ dc_target <= 30)

\* C13: every candidate and every lot of a returned solution is of a
\* material state admissible for the request's dc_target
MaterialStateAdmissible ==
    \A lot \in CandidateLots \cup ReturnedLots :
        StateAdmissible(lot.product.state, requirements.dc_target)

\* a solution with a half-down lot was returned for a DC target of 40 from
\* an inventory that also holds a feather lot, refused for that target
HalfDownReturnedFeatherRefused ==
    /\ Returned
    /\ requirements.dc_target = 40
    /\ \E lot \in ReturnedLots : lot.product.state = "M"
    /\ \E k \in Indices(inventory) :
          /\ inventory[k].product.state = "S"
          /\ inventory[k].dc_real >= 25
          /\ inventory[k] \notin CandidateLots

\* C14: no candidate and no lot of a returned solution has an article code
\* whose state, species or color is missing or outside its enumeration
InvalidCodesExcluded ==
    \A lot \in CandidateLots \cup ReturnedLots :
        /\ lot.product.state \in {"P", "M", "S", "O"}
        /\ lot.product.species \in {"O", "A", "OA", "C"}
        /\ lot.product.color \in {"PW", "BPW", "NPW", "BNPW", "B", "G", "R"}

---------------------------------------------------------------------------
\* Properties of a BlendSolution

\* the lot field behind each aggregate
Aggregates ==
    { [of |-> "dc_real", avg |-> "dc_average"],
      [of |-> "fp_real", avg |-> "fp_average"],
      [of |-> "duck_real", avg |-> "duck_average"],
      [of |-> "other_elements_real", avg |-> "oe_average"],
      [of |-> "feather_real", avg |-> "feather_average"] }

\* Sigma field * kg over the lots of an allocation that have the field
RECURSIVE FieldKgSum(_, _)
FieldKgSum(lots, field) ==
    IF lots = <<>> THEN 0
    ELSE (IF Head(lots).lot[field] # None THEN Head(lots).lot[field] * Head(lots).kg
          ELSE 0)
         + FieldKgSum(Tail(lots), field)

\* Sigma kg over the lots of an allocation that have the field
RECURSIVE KgWithField(_, _)
KgWithField(lots, field) ==
    IF lots = <<>> THEN 0
    ELSE (IF Head(lots).lot[field] # None THEN Head(lots).kg ELSE 0)
         + KgWithField(Tail(lots), field)

\* the BlendSolutions of the call: one for each deduplicated combination,
\* and those the scoring loop kept
BlendSolutions ==
    {NewBlendSolution(combinations[c], requirements) : c \in Indices(combinations)}
        \cup {solutions[k] : k \in Indices(solutions)}

\* each aggregate is the average of the field weighted by kg over the lots
\* that have the field, and 0 when no lot has it
AveragesOverLotsWithField(solution) ==
    \A a \in Aggregates :
        LET kg == KgWithField(solution.lots, a.of)
            avg == solution[a.avg]
        IN  /\ kg > 0 => avg.n * kg = FieldKgSum(solution.lots, a.of) * avg.d
            /\ kg = 0 => avg.n = 0
            /\ avg.d > 0

\* C15 as stated: each aggregate is the weighted average over the lots that
\* have the field, and it is 0 exactly when no lot provides the field
AggregateZeroOnlyWithoutField ==
    \A solution \in BlendSolutions :
        /\ AveragesOverLotsWithField(solution)
        /\ \A a \in Aggregates :
              solution[a.avg].n = 0 <=> KgWithField(solution.lots, a.of) = 0

\* C15, amended: each aggregate is the weighted average over the lots that
\* have the field, and it is 0 when no lot provides the field
AggregatesAreWeightedAverages ==
    \A solution \in BlendSolutions : AveragesOverLotsWithField(solution)

\* a solution blends a lot that has a fill power with one that has none,
\* and another solution has a zero duck average from lots that all report
\* duck 0
PartialFieldAndZeroField ==
    /\ \E solution \in BlendSolutions :
          /\ KgWithField(solution.lots, "fp_real") > 0
          /\ KgWithField(solution.lots, "fp_real") < solution.total_kg
    /\ \E solution \in BlendSolutions :
          /\ KgWithField(solution.lots, "duck_real") > 0
          /\ solution.duck_average.n = 0

\* |Sigma field * kg / Sigma kg - target| <= tolerance, the average being 0
\* without a lot that has the field
WithinTolerance(lots, field, target, tolerance) ==
    LET kg == KgWithField(lots, field)
    IN  IF kg > 0
        THEN Abs(FieldKgSum(lots, field) - target * kg) <= tolerance * kg
        ELSE Abs(0 - target) <= tolerance

\* C16: each of meets_dc_target, meets_fp_target and meets_duck_target is
\* true iff the target is absent or the average lies within the tolerance
\* of the target, and meets_oe_target iff max_oe is absent or the OE average
\* does not exceed it
FlagsMatchTolerances ==
    \A solution \in BlendSolutions :
        /\ solution.meets_dc_target <=>
              (requirements.dc_target = None
               \/ WithinTolerance(solution.lots, "dc_real", requirements.dc_target,
                                  requirements.dc_tolerance))
        /\ solution.meets_fp_target <=>
              (requirements.fp_target = None
               \/ WithinTolerance(solution.lots, "fp_real", requirements.fp_target,
                                  requirements.fp_tolerance))
        /\ solution.meets_duck_target <=>
              (requirements.duck_target = None
               \/ WithinTolerance(solution.lots, "duck_real", requirements.duck_target,
                                  requirements.duck_tolerance))
        /\ solution.meets_oe_target <=>
              (requirements.max_oe = None
               \/ LET kg == KgWithField(solution.lots, "other_elements_real")
                  IN  IF kg > 0
                      THEN FieldKgSum(solution.lots, "other_elements_real")
                               <= requirements.max_oe * kg
                      ELSE 0 <= requirements.max_oe)

\* with DC and FP targets set, one solution of the call meets both and
\* another misses one of them
FlagMetAndFlagMissed ==
    /\ requirements.dc_target # None
    /\ requirements.fp_target # None
    /\ \E solution \in BlendSolutions :
          solution.meets_dc_target /\ solution.meets_fp_target
    /\ \E solution \in BlendSolutions :
          ~solution.meets_dc_target \/ ~solution.meets_fp_target

\* Sigma kg over the lots listed, whatever the record calls the mass
RECURSIVE ListedKg(_, _)
ListedKg(lots, mass) ==
    IF lots = <<>> THEN 0 ELSE Head(lots)[mass] + ListedKg(Tail(lots), mass)

\* C17: total_kg equals the sum of kg_used over the lots listed, in every
\* BlendSolution and in every solution of the API response
TotalKgIsSumOfKgUsed ==
    /\ \A solution \in BlendSolutions :
          solution.total_kg = ListedKg(solution.lots, "kg")
    /\ \A k \in Indices(api_solutions) :
          api_solutions[k].total_kg = ListedKg(api_solutions[k].lots, "kg_used")

---------------------------------------------------------------------------
\* Properties of the search and of its frame

AtMostMaxLots ==
    /\ \A c \in Indices(combinations) : Len(combinations[c]) <= requirements.max_lots
    /\ \A k \in Indices(result) : Len(result[k].lots) <= requirements.max_lots

\* a solution of exactly max_lots lots was returned although there were
\* more candidates than max_lots
MaxLotsUsedOfMoreCandidates ==
    /\ Returned
    /\ Len(candidates) > requirements.max_lots
    /\ \E k \in Indices(result) : Len(result[k].lots) = requirements.max_lots

---------------------------------------------------------------------------
\* Properties of the failure report

\* C21: a request repeated with allow_estimated after the answer "would
\* succeed with estimated data" gets at least one solution, and "no
\* candidates at all" is answered only when the candidate filter is empty
\* both without and with the estimated lots
EstimatedRerunSucceeds ==
    /\ (rerun /\ pc \in {"done", "no_lots", "raised"}) => result # <<>>
    /\ pc = "no_candidates" =>
          /\ FilterCandidates(inventory, requirements, FALSE) = <<>>
          /\ FilterCandidates(inventory, requirements, TRUE) = <<>>

---------------------------------------------------------------------------
\* excel_export.py: the averages of the exported sheet

\* one average of _calculate_weighted_averages, as a fraction: every lot
\* weighs kg / total_kg and a lot lacking the field adds nothing
ExportedAverage(lots, field) ==
    LET total_kg == TotalKg(lots)
    IN  IF total_kg = 0 THEN Zero
        ELSE [n |-> SeqSum([k \in 1..Len(lots) |->
                               IF lots[k].lot[field] # None
                               THEN lots[k].lot[field] * lots[k].kg ELSE 0]),
              d |-> total_kg]

\* _calculate_weighted_averages
CalculateWeightedAverages(lots) ==
    [dc_avg |-> ExportedAverage(lots, "dc_real"),
     fp_avg |-> ExportedAverage(lots, "fp_real"),
     duck_avg |-> ExportedAverage(lots, "duck_real"),
     oe_avg |-> ExportedAverage(lots, "other_elements_real")]

\* C29: the dc_avg, fp_avg, duck_avg and oe_avg of the exporter equal the
\* dc_average, fp_average, duck_average and oe_average of the BlendSolution
\* of the same lots and allocations, also when a lot lacks a field
ExporterAgreesWithEvaluator ==
    \A c \in 1..Len(combinations) :
        LET solution == NewBlendSolution(combinations[c], requirements)
            metrics == CalculateWeightedAverages(combinations[c])
            Same(x, y) == x.n * y.d = y.n * x.d
        IN  /\ Same(metrics.dc_avg, solution.dc_average)
            /\ Same(metrics.fp_avg, solution.fp_average)
            /\ Same(metrics.duck_avg, solution.duck_average)
            /\ Same(metrics.oe_avg, solution.oe_average)

---------------------------------------------------------------------------
\* Properties of the scoring

\* C27: optimize never aborts with a division by zero: the scoring of every
\* combination completes, also with duck_target = 0 and a blend whose duck
\* average exceeds the tolerance
ScoringNeverDividesByZero == pc # "raised"

---------------------------------------------------------------------------
\* Properties of the allocation solver

\* the allocations _calculate_optimal_allocation gives the non-empty
\* sublists of the inventory
SolverAllocations ==
    { CalculateOptimalAllocation(lots, requirements.quantity_kg, requirements) :
        lots \in SubLists(inventory) \ { <<>> } }

\* the solver depends on the lots and the requirements only: it is looked
\* at once for each inventory and request, when the inventory is loaded
SolverCalled == pc = "filter" /\ calls = 1 /\ num_solutions = 1 /\ ~allow_estimated

\* C26: _calculate_optimal_allocation returns no allocation or one in which
\* every kg is at least 10 and at most 0.95 of the lot's available kg and
\* the total is at least 0.9 of the quantity; in particular none when the
\* lots cannot reach the 90% floor
AllocationWithinLimits ==
    SolverCalled =>
        \A allocation \in SolverAllocations :
            allocation # <<>> =>
                /\ \A k \in 1..Len(allocation) :
                      /\ allocation[k].kg >= Kg(MinLotUsageKg)
                      /\ allocation[k].kg * 100
                             <= MaxLotUsagePct * allocation[k].lot.qty_available
                /\ TotalKg(allocation) * 10 >= requirements.quantity_kg * 9

\* with a DC target inside the range of two lots more than 2 apart, the
\* solver returned an allocation for them and one for two lots more than 5
\* above the target
SolverInsideAndOutsideRange ==
    /\ SolverCalled
    /\ requirements.dc_target # None
    /\ \E lots \in SubLists(inventory) :
          /\ Len(lots) = 2
          /\ Abs(lots[1].dc_real - lots[2].dc_real) >= 2
          /\ requirements.dc_target < Min(lots[1].dc_real, lots[2].dc_real) - 5
          /\ CalculateOptimalAllocation(lots, requirements.quantity_kg,
                                        requirements) # <<>>
    /\ \E lots \in SubLists(inventory) :
          /\ Len(lots) = 2
          /\ Abs(lots[1].dc_real - lots[2].dc_real) >= 2
          /\ requirements.dc_target >= Min(lots[1].dc_real, lots[2].dc_real)
          /\ requirements.dc_target <= Max(lots[1].dc_real, lots[2].dc_real)
          /\ CalculateOptimalAllocation(lots, requirements.quantity_kg,
                                        requirements) # <<>>

---------------------------------------------------------------------------
\* The imputation of missing values: InventoryManager._row_to_lot of the
\* core loader and InventoryService.apply_imputation of the upload

\* the variables of optimize_blend, which the loaders, the upload and the
\* cache endpoints do not touch
optimizer == << db_lots, exclude_raw_materials, inventory, requirements,
                num_solutions, allow_estimated, candidates, generated, combinations,
                i, solutions, result, calls, prev_result, api_solutions, rerun >>

\* no optimization in progress
OptimizerIdle ==
    /\ db_lots = <<>>
    /\ exclude_raw_materials = TRUE
    /\ inventory = <<>>
    /\ requirements = Request
    /\ num_solutions = 1
    /\ allow_estimated = FALSE
    /\ candidates = <<>>
    /\ generated = 0
    /\ combinations = <<>>
    /\ i = 1
    /\ solutions = <<>>
    /\ result = <<>>
    /\ calls = 0
    /\ prev_result = <<>>
    /\ api_solutions = <<>>
    /\ rerun = FALSE

\* LabNotesParser.FP_QUALITATIVE_MAP
FpQualitativeMap ==
    [indicator \in {"molto alto", "alto", "medio-alto", "medio", "medio-basso",
                    "basso", "molto basso", "buona resa", "ottima resa"} |->
        CASE indicator = "molto alto" -> 800
          [] indicator = "alto" -> 750
          [] indicator = "medio-alto" -> 700
          [] indicator = "medio" -> 650
          [] indicator = "medio-basso" -> 600
          [] indicator = "basso" -> 550
          [] indicator = "molto basso" -> 500
          [] indicator = "buona resa" -> 680
          [] indicator = "ottima resa" -> 720]

\* LabNotesParser.CLASS_TO_OE
ClassToOe == <<5, 12, 20, 30>>

\* LabEstimates()
NoEstimates == [dc_estimate |-> None, fp_estimate |-> None, oe_estimate |-> None]

\* A laboratory note is given by what the patterns of the parser find in it:
\* len, the length of the stripped text; dc, the numbers of "DC lo-hi%"
\* (two) or of "DC v%" (one); cl, the digit of "CLn"; fp, the qualitative
\* indicator after "FP".  The notes name no broken, fibre or dust.
\* parse: the estimate of a range is its middle
ParseLabNotes(note) ==
    IF note.len < 5 THEN NoEstimates
    ELSE [dc_estimate |-> IF Len(note.dc) = 2 THEN (note.dc[1] + note.dc[2]) \div 2
                          ELSE IF Len(note.dc) = 1 THEN note.dc[1]
                          ELSE None,
          oe_estimate |-> IF note.cl \in 1..4 THEN ClassToOe[note.cl] ELSE None,
          fp_estimate |-> IF note.fp # "" THEN FpQualitativeMap[note.fp] ELSE None]

\* the estimates _row_to_lot works with: the note is parsed when it has more
\* than 5 characters
LabEstimatesOf(l) ==
    IF l.lab_notes.len > 5 THEN ParseLabNotes(l.lab_notes) ELSE NoEstimates

\* LotData._check_estimated_data
CheckEstimatedData(l) == [l EXCEPT !.is_estimated = l.dc_was_imputed]

\* CORREZIONE 1: DC not tested: the laboratory note, then the nominal DC
ImputeDc(l) ==
    IF l.dc_real = None \/ l.dc_real = 0
    THEN LET lab_estimates == LabEstimatesOf(l)
         IN  IF Truthy(lab_estimates.dc_estimate)
             THEN [l EXCEPT !.dc_real = lab_estimates.dc_estimate,
                            !.dc_was_imputed = TRUE,
                            !.other_elements_real =
                                IF Truthy(lab_estimates.oe_estimate) /\ (@ = None \/ @ = 0)
                                THEN lab_estimates.oe_estimate ELSE @]
             ELSE IF Truthy(l.dc_nominal) /\ l.dc_nominal > 0
                  THEN [l EXCEPT !.dc_real = l.dc_nominal, !.dc_was_imputed = TRUE]
             ELSE l
    ELSE l

\* CORREZIONE 2: FP not tested: the laboratory note, then the nominal FP
ImputeFp(l) ==
    IF l.fp_real = None \/ l.fp_real = 0
    THEN LET lab_estimates == LabEstimatesOf(l)
         IN  IF Truthy(lab_estimates.fp_estimate)
             THEN [l EXCEPT !.fp_real = lab_estimates.fp_estimate,
                            !.fp_was_imputed = TRUE]
             ELSE IF Truthy(l.fp_nominal) /\ l.fp_nominal > 0
                  THEN [l EXCEPT !.fp_real = l.fp_nominal, !.fp_was_imputed = TRUE]
             ELSE l
    ELSE l

\* CORREZIONE 3, 4, 5: duck of the duck, goose and mixed articles
CorrectDuck(l) ==
    IF l.species = "A" /\ (l.duck_real = None \/ l.duck_real = 0)
    THEN [l EXCEPT !.duck_real = 100]
    ELSE IF l.species = "O" /\ l.duck_real = None
    THEN [l EXCEPT !.duck_real = 0]
    ELSE IF l.species = "OA" /\ (l.duck_real = None \/ l.duck_real = 0)
    THEN [l EXCEPT !.duck_real = 50]
    ELSE l

\* the corrections of _row_to_lot, with the flags of a new LotData
CoreImputationFresh(l) ==
    CheckEstimatedData(CorrectDuck(ImputeFp(ImputeDc(
        [l EXCEPT !.dc_was_imputed = FALSE, !.fp_was_imputed = FALSE]))))

\* the corrections of _row_to_lot on a lot
CoreImputation(l) == CheckEstimatedData(CorrectDuck(ImputeFp(ImputeDc(l))))

\* the LotData _row_to_lot builds of a row: a missing duck is read as 0
NewLotData(r) ==
    [species |-> r.species, dc_real |-> r.dc_real, fp_real |-> r.fp_real,
     duck_real |-> IF r.duck_real = None THEN 0 ELSE r.duck_real,
     other_elements_real |-> r.other_elements_real,
     dc_nominal |-> r.dc_nominal, fp_nominal |-> r.fp_nominal,
     lab_notes |-> r.lab_notes,
     dc_was_imputed |-> FALSE, fp_was_imputed |-> FALSE, is_estimated |-> FALSE]

\* _row_to_lot
RowToLot(r) == CoreImputation(NewLotData(r))

\* the InventoryLot dataframe_to_lots builds of a row
NewInventoryLot(r) ==
    [species |-> r.species, dc_real |-> r.dc_real, fp_real |-> r.fp_real,
     duck_real |-> r.duck_real,
     other_elements_real |-> r.other_elements_real,
     dc_nominal |-> r.dc_nominal, fp_nominal |-> r.fp_nominal,
     lab_notes |-> r.lab_notes,
     dc_was_imputed |-> FALSE, fp_was_imputed |-> FALSE, is_estimated |-> FALSE]

\* apply_imputation, on one lot
ApplyImputation(l) ==
    LET dc == IF l.dc_real = None /\ l.dc_nominal # None
              THEN [l EXCEPT !.dc_real = l.dc_nominal, !.dc_was_imputed = TRUE,
                             !.is_estimated = TRUE]
              ELSE l
        fp == IF dc.fp_real = None /\ dc.fp_nominal # None
              THEN [dc EXCEPT !.fp_real = dc.fp_nominal, !.fp_was_imputed = TRUE,
                              !.is_estimated = TRUE]
              ELSE dc
    IN  IF fp.species \in {"A", "O", "OA"} /\ fp.duck_real = None
        THEN [fp EXCEPT !.duck_real = CASE fp.species = "A" -> 100
                                        [] fp.species = "O" -> 0
                                        [] fp.species = "OA" -> 50]
        ELSE fp

\* the laboratory notes of the rows: none; "dc 5%", too short to be read;
\* "DC 36-40%"; "DC 0% CL1"; "DC 36-40% CL2 FP alla mano alto";
\* "FP alla mano alto"
LabNotes ==
    { [len |-> 0, dc |-> <<>>, cl |-> None, fp |-> ""],
      [len |-> 5, dc |-> <<5>>, cl |-> None, fp |-> ""],
      [len |-> 9, dc |-> <<36, 40>>, cl |-> None, fp |-> ""],
      [len |-> 9, dc |-> <<0>>, cl |-> 1, fp |-> ""],
      [len |-> 31, dc |-> <<36, 40>>, cl |-> 2, fp |-> "alto"],
      [len |-> 17, dc |-> <<>>, cl |-> None, fp |-> "alto"] }

\* the rows: every field missing, zero or present
Rows ==
    [species : SpeciesCodes,
     dc_real : {None, 0, 50},
     fp_real : {None, 0, 600},
     duck_real : {None, 0, 20},
     other_elements_real : {None, 0},
     dc_nominal : {None, 0, 80},
     fp_nominal : {None, 0, 700},
     lab_notes : LabNotes]

ImputationInit ==
    /\ row \in Rows
    /\ loaded = <<>>
    /\ first_pass = <<>>
    /\ pc = "row"
    /\ table = <<>>
    /\ stored = <<>>
    /\ uploads = <<>>
    /\ session = <<>>
    /\ optimization_cache = <<>>
    /\ response = <<>>
    /\ OptimizerIdle

\* the core loader reads the row
CoreLoadRow ==
    /\ pc = "row"
    /\ loaded' = RowToLot(row)
    /\ first_pass' = loaded'
    /\ pc' = "core_loaded"
    /\ UNCHANGED << optimizer, row, table, stored, uploads, session,
                    optimization_cache, response >>

\* the corrections of the core loader run on the lot again
CoreImputeAgain ==
    /\ pc = "core_loaded"
    /\ loaded' = CoreImputation(loaded)
    /\ pc' = "core_again"
    /\ UNCHANGED << optimizer, row, first_pass, table, stored, uploads, session,
                    optimization_cache, response >>

\* the upload reads the row
ServiceLoadRow ==
    /\ pc = "row"
    /\ loaded' = ApplyImputation(NewInventoryLot(row))
    /\ first_pass' = loaded'
    /\ pc' = "service_loaded"
    /\ UNCHANGED << optimizer, row, table, stored, uploads, session,
                    optimization_cache, response >>

\* apply_imputation runs on the lot again
ServiceImputeAgain ==
    /\ pc = "service_loaded"
    /\ loaded' = ApplyImputation(loaded)
    /\ pc' = "service_again"
    /\ UNCHANGED << optimizer, row, first_pass, table, stored, uploads, session,
                    optimization_cache, response >>

ImputationNext ==
    \/ CoreLoadRow
    \/ CoreImputeAgain
    \/ ServiceLoadRow
    \/ ServiceImputeAgain

ImputationSpec == ImputationInit /\ [][ImputationNext]_vars

\* C22: after loading and imputation every lot has is_estimated =
\* dc_was_imputed, for the core loader and for the upload's imputation
EstimatedIffDcImputed ==
    pc \in {"core_loaded", "service_loaded"} =>
        loaded.is_estimated = loaded.dc_was_imputed

\* the fields the imputation writes
Imputed(l) ==
    << l.dc_real, l.fp_real, l.duck_real, l.other_elements_real,
       l.dc_was_imputed, l.fp_was_imputed, l.is_estimated >>

\* C23: a second run of the imputation chain on a lot changes none of
\* dc_real, fp_real, duck_real, other_elements_real, dc_was_imputed,
\* fp_was_imputed, is_estimated
ImputationIdempotent ==
    pc \in {"core_again", "service_again"} => Imputed(loaded) = Imputed(first_pass)

\* the core loader imputed DC, OE and FP from the note
\* and the duck of a mixed article, and ran again
ImputedAllAndRanAgain ==
    /\ pc = "core_again"
    /\ first_pass.dc_was_imputed
    /\ first_pass.fp_was_imputed
    /\ first_pass.dc_real = 38
    /\ first_pass.other_elements_real = 12
    /\ first_pass.fp_real = 750
    /\ row.species = "OA"
    /\ first_pass.duck_real = 50

---------------------------------------------------------------------------
\* The upload of an inventory table: InventoryService.upload_csv behind the
\* upload endpoint.  A cell of the table is the list of its characters.

MaxRows == 3

Digits == << "0", "1", "2", "3", "4", "5", "6", "7", "8", "9" >>

\* float(val_str) of a cell of digits
RECURSIVE DigitsValue(_)
DigitsValue(chars) ==
    IF chars = <<>> THEN 0
    ELSE 10 * DigitsValue(SubSeq(chars, 1, Len(chars) - 1))
         + (CHOOSE d \in 0..9 : Digits[d + 1] = chars[Len(chars)])

\* to_float: None for an empty cell and for one float() refuses
ToFloat(cell) ==
    LET val_str == Strip(cell)
    IN  IF val_str = <<>> THEN None
        ELSE IF \A k \in 1..Len(val_str) : \E d \in 1..10 : Digits[d] = val_str[k]
        THEN DigitsValue(val_str)
        ELSE None

\* validate_percentage_field raises ValueError
PercentageInvalid(value) == value # None /\ (value < 0 \/ value > 100)

\* df.drop_duplicates(subset=['SCO_ART', 'SCO_LOTT'], keep='first')
DropDuplicates(df) ==
    SelectSeq([k \in 1..Len(df) |-> [df[k] EXCEPT !.first =
                   ~\E j \in 1..(k - 1) : /\ df[j].SCO_ART = df[k].SCO_ART
                                          /\ df[j].SCO_LOTT = df[k].SCO_LOTT]],
              LAMBDA r : r.first)

\* dataframe_to_lots skips the row: a code is empty once stripped
RowSkipped(r) == Strip(r.SCO_ART) = <<>> \/ Strip(r.SCO_LOTT) = <<>>

\* dataframe_to_lots raises on the row
RowRaises(r) == ~RowSkipped(r) /\ PercentageInvalid(ToFloat(r.SCO_DownCluster_Real))

\* the InventoryLot of a row, after apply_imputation; the table has the
\* three columns, the article is goose down
UploadLot(r) ==
    [article_code |-> Join(Strip(r.SCO_ART)), lot_code |-> Join(Strip(r.SCO_LOTT))]
    @@ ApplyImputation(NewInventoryLot(
           [species |-> "O", dc_real |-> ToFloat(r.SCO_DownCluster_Real),
            fp_real |-> None, duck_real |-> None, other_elements_real |-> None,
            dc_nominal |-> None, fp_nominal |-> None,
            lab_notes |-> [len |-> 0, dc |-> <<>>, cl |-> None, fp |-> ""]]))

\* dataframe_to_lots then apply_imputation, when no row raises
DataframeToLots(df) ==
    LET kept == SelectSeq(df, LAMBDA r : ~RowSkipped(r))
    IN  [k \in 1..Len(kept) |-> UploadLot(kept[k])]

\* what the tables hold once the failed transaction has ended: it was
\* committed
RollbackCommits(committed, pending) == pending

\* db.rollback(): the tables as they were committed
Rollback(committed, pending) == committed

\* the rows of the uploaded tables; first is set by drop_duplicates
TableRows ==
    [SCO_ART : {<<"A", "1">>, <<" ", "A", "1">>},
     SCO_LOTT : {<<"L", "1">>, <<"L", "2">>},
     SCO_DownCluster_Real : {<<"5", "0">>, <<"1", "5", "0">>, <<"a", "b", "c">>},
     first : {TRUE}]

\* the inventory and the upload record of an earlier upload
OldInventory ==
    << UploadLot([SCO_ART |-> <<"Z", "9">>, SCO_LOTT |-> <<"L", "0">>,
                  SCO_DownCluster_Real |-> <<"7", "0">>, first |-> TRUE]) >>

OldUploads == << [total_lots |-> 1, status |-> "completed"] >>

UploadInit ==
    /\ table \in UNION { [1..n -> TableRows] : n \in 1..MaxRows }
    /\ stored = OldInventory
    /\ uploads = OldUploads
    /\ session = [lots |-> stored, uploads |-> uploads]
    /\ loaded = <<>>
    /\ pc = "upload"
    /\ row = <<>>
    /\ first_pass = <<>>
    /\ optimization_cache = <<>>
    /\ response = <<>>
    /\ OptimizerIdle

\* upload_csv up to the delete: the duplicates are dropped, the record of
\* the upload is added as 'processing', the lots are deleted; both flushed
UploadBegin ==
    /\ pc = "upload"
    /\ session' = [lots |-> <<>>,
                   uploads |-> Append(session.uploads,
                                      [total_lots |-> Len(DropDuplicates(table)),
                                       status |-> "processing"])]
    /\ pc' = "convert"
    /\ UNCHANGED << optimizer, row, loaded, first_pass, table, stored, uploads,
                    optimization_cache, response >>

\* dataframe_to_lots and apply_imputation: a percentage out of range raises
\* and ends the loop; otherwise the lots are saved and the record is
\* 'completed'
UploadConvert ==
    /\ pc = "convert"
    /\ LET df == DropDuplicates(table)
       IN  IF \E k \in 1..Len(df) : RowRaises(df[k])
           THEN /\ pc' = "upload_raised"
                /\ UNCHANGED << loaded, session >>
           ELSE /\ pc' = "save"
                /\ loaded' = DataframeToLots(df)
                /\ session' = [lots |-> loaded',
                               uploads |-> [session.uploads EXCEPT
                                   ![Len(session.uploads)].status = "completed"]]
    /\ UNCHANGED << optimizer, row, first_pass, table, stored, uploads,
                    optimization_cache, response >>

\* db.commit()
UploadCommit ==
    /\ pc = "save"
    /\ stored' = session.lots
    /\ uploads' = session.uploads
    /\ response' = 200
    /\ pc' = "uploaded"
    /\ UNCHANGED << optimizer, row, loaded, first_pass, table, session,
                    optimization_cache >>

\* the endpoint catches the exception: db.rollback() and HTTP 400
UploadRollback ==
    /\ pc = "upload_raised"
    /\ session' = Rollback([lots |-> stored, uploads |-> uploads], session)
    /\ stored' = session'.lots
    /\ uploads' = session'.uploads
    /\ response' = 400
    /\ pc' = "upload_failed"
    /\ UNCHANGED << optimizer, row, loaded, first_pass, table, optimization_cache >>

UploadNext ==
    \/ UploadBegin
    \/ UploadConvert
    \/ UploadCommit
    \/ UploadRollback

UploadSpec == UploadInit /\ [][UploadNext]_vars

\* the rows of the table dataframe_to_lots can build a lot of: both codes
\* present, the percentage a number within [0, 100]
RowValid(r) ==
    /\ ~RowSkipped(r)
    /\ ToFloat(r.SCO_DownCluster_Real) \in 0..100

\* C24: loader errors are per-row: once the loader has ended, every valid
\* row of the table is loaded, whatever the other rows hold, and no row
\* that fails the coercion or the validation is
LoaderErrorsPerRow ==
    pc \in {"save", "upload_raised"} =>
        LET df == DropDuplicates(table)
        IN  \A k \in 1..Len(df) :
               RowValid(df[k]) <=> \E j \in 1..Len(loaded) : loaded[j] = UploadLot(df[k])

\* the (article_code, lot_code) of a row
KeyOf(r) == << Join(Strip(r.SCO_ART)), Join(Strip(r.SCO_LOTT)) >>

\* C25: after a successful upload no two stored lots share (article_code,
\* lot_code), and the stored lot of a pair is built from the first row of
\* the table with that pair
StoredLotsUniqueFirstKept ==
    pc = "uploaded" =>
        /\ \A j, k \in 1..Len(stored) :
              (stored[j].article_code = stored[k].article_code
               /\ stored[j].lot_code = stored[k].lot_code) => j = k
        /\ \A j \in 1..Len(stored) :
              \E k \in 1..Len(table) :
                 /\ stored[j] = UploadLot(table[k])
                 /\ \A h \in 1..(k - 1) : KeyOf(table[h]) # KeyOf(table[k])

---------------------------------------------------------------------------
\* The result cache of api/endpoints/optimize.py

MaxRequests == 3

\* the request ids uuid4 draws from
RequestIds == 1..MaxRequests

\* no OptimizationResult in the answer
NoResult == [request_id |-> 0, solutions |-> 0]

\* the OptimizationResults the service returns under request_id
Results(request_id) ==
    { [request_id |-> request_id, solutions |-> n] : n \in 1..MaxNumSolutions }

StatusAlwaysCompleted(cache, request_id) == "completed"

\* get_optimization_status: the status it answers
StatusOf(cache, request_id) ==
    IF request_id \in DOMAIN cache THEN "completed" ELSE "not_found"

\* the result an endpoint reads from the cache
Cached(cache, request_id) ==
    IF request_id \in DOMAIN cache THEN cache[request_id] ELSE NoResult

CacheInit ==
    /\ optimization_cache = <<>>
    /\ response = [endpoint |-> "none", request_id |-> 0, code |-> 0, status |-> "",
                   result |-> NoResult]
    /\ pc = "serving"
    /\ row = <<>>
    /\ loaded = <<>>
    /\ first_pass = <<>>
    /\ table = <<>>
    /\ stored = <<>>
    /\ uploads = <<>>
    /\ session = <<>>
    /\ OptimizerIdle

\* optimize_blend: the service returned a result under a new request id
OptimizeBlendReturns ==
    /\ \E request_id \in RequestIds \ DOMAIN optimization_cache :
       \E r \in Results(request_id) :
          /\ optimization_cache' = (request_id :> r) @@ optimization_cache
          /\ response' = [endpoint |-> "blend", request_id |-> request_id, code |-> 200,
                          status |-> "", result |-> r]
    /\ UNCHANGED << optimizer, pc, row, loaded, first_pass, table, stored, uploads,
                    session >>

\* optimize_blend: the service raised, ValueError (400) or another
\* exception (500)
OptimizeBlendRaises ==
    /\ \E code \in {400, 500} :
          response' = [endpoint |-> "blend", request_id |-> 0, code |-> code,
                       status |-> "", result |-> NoResult]
    /\ UNCHANGED << optimizer, pc, row, loaded, first_pass, table, stored, uploads,
                    session, optimization_cache >>

\* get_optimization_status
GetOptimizationStatus ==
    /\ \E request_id \in RequestIds :
          response' = [endpoint |-> "status", request_id |-> request_id, code |-> 200,
                       status |-> StatusOf(optimization_cache, request_id),
                       result |-> Cached(optimization_cache, request_id)]
    /\ UNCHANGED << optimizer, pc, row, loaded, first_pass, table, stored, uploads,
                    session, optimization_cache >>

\* get_optimization_results
GetOptimizationResults ==
    /\ \E request_id \in RequestIds :
          response' = [endpoint |-> "results", request_id |-> request_id,
                       code |-> IF request_id \in DOMAIN optimization_cache
                                THEN 200 ELSE 404,
                       status |-> "",
                       result |-> Cached(optimization_cache, request_id)]
    /\ UNCHANGED << optimizer, pc, row, loaded, first_pass, table, stored, uploads,
                    session, optimization_cache >>

\* download_excel: 404, the file, or 500 when the generation raises
DownloadExcel ==
    /\ \E request_id \in RequestIds :
       \E code \in IF request_id \in DOMAIN optimization_cache THEN {200, 500}
                   ELSE {404} :
          response' = [endpoint |-> "excel", request_id |-> request_id, code |-> code,
                       status |-> "", result |-> NoResult]
    /\ UNCHANGED << optimizer, pc, row, loaded, first_pass, table, stored, uploads,
                    session, optimization_cache >>

CacheNext ==
    \/ OptimizeBlendReturns
    \/ OptimizeBlendRaises
    \/ GetOptimizationStatus
    \/ GetOptimizationResults
    \/ DownloadExcel

CacheSpec == CacheInit /\ [][CacheNext]_vars

\* C30: the cache reflects only successful optimizations: a successful one
\* adds its result under its new id, a failed one adds nothing, status,
\* results and excel leave the cache as it is, and an id that is not cached
\* is answered 'not_found' by status and 404 by results and excel
CacheReflectsSuccessfulOptimizations ==
    [][LET answer == response'
           request_id == answer.request_id
           succeeded == answer.endpoint = "blend" /\ answer.code = 200
       IN  /\ succeeded =>
                /\ request_id \notin DOMAIN optimization_cache
                /\ DOMAIN optimization_cache' = DOMAIN optimization_cache \cup {request_id}
                /\ optimization_cache'[request_id] = answer.result
                /\ \A id \in DOMAIN optimization_cache :
                      optimization_cache'[id] = optimization_cache[id]
           /\ ~succeeded => optimization_cache' = optimization_cache
           /\ answer.endpoint = "status" =>
                (answer.status = "not_found" <=> request_id \notin DOMAIN optimization_cache)
           /\ answer.endpoint \in {"results", "excel"} =>
                (answer.code = 404 <=> request_id \notin DOMAIN optimization_cache)
      ]_vars

\* with one result cached, a failed optimization was answered 400 and the
\* cache still holds that one result
FailedWithOneCached ==
    /\ response.endpoint = "blend"
    /\ response.code = 400
    /\ \E request_id \in RequestIds : DOMAIN optimization_cache = {request_id}

====
